---- MODULE Spec2Model ----
(***************************************************************************)
(* Model of solana-validator-version-sync: the sync decision engine        *)
(* (Validator.SyncVersion), the SFDP compliance clamp                      *)
(* (Requirements.SetClient, Validator.getSFDPCompliantVersion) and the     *)
(* command pipeline (Command.ExecuteWithData, Command.exec).               *)
(***************************************************************************)
EXTENDS Integers, Sequences, FiniteSets, TLC

(***************************************************************************)
(* Bounds of the explored input space.                                     *)
(***************************************************************************)
\* versions 1.0.0 .. 1.MaxMinor.0, each as a release and as a pre-release
MaxMinor == 2
\* sync.commands holds at most MaxCommands steps when the pipeline is explored
\* on its own, at most MaxGateCommands steps when the whole attempt is explored
MaxCommands == 3
MaxGateCommands == 2
\* calls of SyncVersion in progress that the exploration counts up to
MaxInProgress == 2
MaxEpochRecords == 3
MaxEpoch == 3
MaxGossipNodes == 3

(***************************************************************************)
(* go-version values.  A parsed version is its three segments and a        *)
(* pre-release rank: pre = 0 is a release, pre > 0 a pre-release tag.      *)
(* A version string is a parsed version, the empty string or garbage.      *)
(***************************************************************************)
PreTags == {0, 1}

NilVersion == [nil |-> TRUE]
EmptyString == [empty |-> TRUE]
Garbage == [garbage |-> TRUE]

KnownVersions ==
    [major : {1}, minor : 0..MaxMinor, patch : {0}, pre : PreTags]

VersionStrings == KnownVersions \cup {EmptyString, Garbage}

\* the releases of the upgrade and downgrade scenarios: 1.17.0 .. 1.21.0
ScenarioVersions ==
    [major : {1}, minor : {17, 18, 19, 20, 21}, patch : {0}, pre : {0}]

\* version.NewVersion: nil and an error for a string that is no version
NewVersion(s) ==
    IF s \in KnownVersions \cup ScenarioVersions THEN s ELSE NilVersion

\* the pre-release tag is kept
CoreKeepsPreRelease(v) == [f \in DOMAIN v |-> IF f = "meta" THEN 0 ELSE v[f]]

\* Version.Core: the segments only, pre-release and build metadata dropped
Core(v) == [f \in DOMAIN v |-> IF f \in {"pre", "meta"} THEN 0 ELSE v[f]]

\* Version.Compare: segments first; on equal segments a release is greater
\* than any pre-release, two pre-releases compare by tag
Compare(a, b) ==
    IF a.major # b.major THEN (IF a.major < b.major THEN -1 ELSE 1)
    ELSE IF a.minor # b.minor THEN (IF a.minor < b.minor THEN -1 ELSE 1)
    ELSE IF a.patch # b.patch THEN (IF a.patch < b.patch THEN -1 ELSE 1)
    ELSE IF a.pre = b.pre THEN 0
    ELSE IF a.pre = 0 THEN 1
    ELSE IF b.pre = 0 THEN -1
    ELSE IF a.pre < b.pre THEN -1 ELSE 1

\* a constraint is a sequence of [op, v] terms, NilConstraint a parse failure
NilConstraint == << [op |-> "error", v |-> NilVersion] >>

OpHolds(op, c) ==
    CASE op = ">=" -> c >= 0
      [] op = "<=" -> c <= 0
      [] op = ">"  -> c > 0
      [] op = "<"  -> c < 0
      [] OTHER     -> FALSE

\* Constraints.Check on a version without pre-release (every caller passes
\* Core()): all terms hold
ConstraintCheck(cons, v) ==
    \A i \in 1..Len(cons) : OpHolds(cons[i].op, Compare(v, cons[i].v))

(***************************************************************************)
(* internal/constants and the SFDP requirements record.                    *)
(***************************************************************************)
ClientNameAgave == "agave"
ClientNameJitoSolana == "jito-solana"
ClientNameFiredancer == "firedancer"
ClientNameBAM == "bam-client"
Clients ==
    {ClientNameAgave, ClientNameJitoSolana, ClientNameFiredancer, ClientNameBAM}

\* the record as decoded from the API response
RawRequirements(amin, amax, fmin, fmax) ==
    [AgaveMinVersion |-> amin, AgaveMaxVersion |-> amax,
     FiredancerMinVersion |-> fmin, FiredancerMaxVersion |-> fmax]

\* the fields SetClient fills in; err # "nil" is its error return
ResolvedRequirements(e, hmin, hmax, mn, mx, cons) ==
    [err |-> e, HasMinVersion |-> hmin, HasMaxVersion |-> hmax,
     MinVersion |-> mn, MaxVersion |-> mx, Constraints |-> cons]

SetClientBounds(minVersion, maxVersion) ==
    LET hasMin == minVersion # EmptyString
        hasMax == maxVersion # EmptyString
        mn == IF hasMin THEN NewVersion(minVersion) ELSE NilVersion
        mx == IF hasMax THEN NewVersion(maxVersion) ELSE NilVersion
        cons == (IF hasMin THEN << [op |-> ">=", v |-> mn] >> ELSE << >>)
                \o (IF hasMax THEN << [op |-> "<=", v |-> mx] >> ELSE << >>)
    IN  IF hasMin /\ mn = NilVersion
        THEN ResolvedRequirements("InvalidMinVersion", TRUE, FALSE,
                                  NilVersion, NilVersion, NilConstraint)
        ELSE IF hasMax /\ mx = NilVersion
        THEN ResolvedRequirements("InvalidMaxVersion", hasMin, TRUE,
                                  mn, NilVersion, NilConstraint)
        ELSE IF cons = << >>
        THEN ResolvedRequirements("EmptyConstraint", FALSE, FALSE,
                                  NilVersion, NilVersion, NilConstraint)
        ELSE ResolvedRequirements("nil", hasMin, hasMax, mn, mx, cons)

\* Requirements.SetClient
SetClient(r, client) ==
    CASE client \in {ClientNameAgave, ClientNameJitoSolana} ->
            SetClientBounds(r.AgaveMinVersion, r.AgaveMaxVersion)
      [] client = ClientNameFiredancer ->
            SetClientBounds(r.FiredancerMinVersion, r.FiredancerMaxVersion)
      [] OTHER ->
            ResolvedRequirements("InvalidClient", FALSE, FALSE,
                                 NilVersion, NilVersion, NilConstraint)

\* one variable is shared by all iterations and the result points at it:
\* once a record with a higher epoch than the first is met, the result is
\* whatever the variable holds when the loop ends, the last record
LatestRequirementsSharedLoopVariable(data) ==
    IF \E i \in 1..Len(data) : data[i].Epoch > data[1].Epoch
    THEN data[Len(data)]
    ELSE data[1]

\* Client.GetLatestRequirements, the loop over result.Data: the result is
\* replaced by each record whose epoch is greater than the result's
RECURSIVE LatestFrom(_, _, _)
LatestFrom(data, i, latest) ==
    IF i > Len(data) THEN latest
    ELSE LatestFrom(data, i + 1,
                    IF data[i].Epoch > latest.Epoch THEN data[i] ELSE latest)

LatestRequirements(data) == LatestFrom(data, 1, data[1])

(***************************************************************************)
(* Validator.getSFDPCompliantVersion, after GetLatestRequirements          *)
(* succeeded: three independent checks, each overwriting the result.       *)
(***************************************************************************)
WithinSFDP(req, targetVersion) ==
    ConstraintCheck(req.Constraints, Core(targetVersion))

AboveMax(req, targetVersion) ==
    req.HasMaxVersion /\ Compare(Core(targetVersion), Core(req.MaxVersion)) > 0

\* the comparison with the min bound has the wrong sign
BelowMinWrongSign(req, targetVersion) ==
    req.HasMinVersion /\ Compare(Core(targetVersion), Core(req.MinVersion)) > 0

BelowMin(req, targetVersion) ==
    req.HasMinVersion /\ Compare(Core(targetVersion), Core(req.MinVersion)) < 0

\* one decision: within the constraint, else the max bound when there is
\* one, else the min bound
getSFDPCompliantVersionElseIf(req, targetVersion) ==
    IF WithinSFDP(req, targetVersion) THEN targetVersion
    ELSE IF req.HasMaxVersion THEN req.MaxVersion
    ELSE IF req.HasMinVersion THEN req.MinVersion
    ELSE NilVersion

\* the min check is made before the max check, which then has the last word
getSFDPCompliantVersionMinFirst(req, targetVersion) ==
    LET r1 == IF WithinSFDP(req, targetVersion) THEN targetVersion ELSE NilVersion
        r2 == IF BelowMin(req, targetVersion) THEN req.MinVersion ELSE r1
        r3 == IF AboveMax(req, targetVersion) THEN req.MaxVersion ELSE r2
    IN  r3

getSFDPCompliantVersion(req, targetVersion) ==
    LET r1 == IF WithinSFDP(req, targetVersion) THEN targetVersion ELSE NilVersion
        r2 == IF AboveMax(req, targetVersion) THEN req.MaxVersion ELSE r1
        r3 == IF BelowMin(req, targetVersion) THEN req.MinVersion ELSE r2
    IN  r3

(***************************************************************************)
(* Role resolution.                                                        *)
(***************************************************************************)
RoleActive == "active"
RolePassive == "passive"
RoleUnknown == "unknown"

IsActive(identity, activeKey) == identity = activeKey

IsPassive(identity, activeKey, passiveKey) ==
    identity = passiveKey /\ ~IsActive(identity, activeKey)

\* the passive key is looked at first
RolePassiveFirst(identity, activeKey, passiveKey) ==
    IF identity = passiveKey THEN RolePassive
    ELSE IF identity = activeKey THEN RoleActive
    ELSE RoleUnknown

\* every identity that is not the active one counts as passive
RoleNeverUnknown(identity, activeKey, passiveKey) ==
    IF IsActive(identity, activeKey) THEN RoleActive ELSE RolePassive

Role(identity, activeKey, passiveKey) ==
    IF IsActive(identity, activeKey) THEN RoleActive
    ELSE IF IsPassive(identity, activeKey, passiveKey) THEN RolePassive
    ELSE RoleUnknown

\* Validator.IsRoleUnknown
IsRoleUnknown(identity, activeKey, passiveKey) ==
    Role(identity, activeKey, passiveKey) = RoleUnknown

\* the versions are compared with their pre-release tags
IsSameVersionWithPre(d) == Compare(d.From, d.To) = 0

\* VersionDiff.IsSameVersion
IsSameVersion(d) == Compare(Core(d.From), Core(d.To)) = 0

\* the comparison is made the wrong way round
IsUpgradeReversed(d) == Compare(Core(d.From), Core(d.To)) > 0

\* VersionDiff.IsUpgrade
IsUpgrade(d) == Compare(Core(d.To), Core(d.From)) > 0

\* the comparison is made the wrong way round
IsDowngradeReversed(d) == Compare(Core(d.From), Core(d.To)) < 0

\* VersionDiff.IsDowngrade
IsDowngrade(d) == Compare(Core(d.To), Core(d.From)) < 0

\* the full versions are compared, pre-release and metadata included
HasMajorChangeWholeVersion(d) == d.To # d.From

\* VersionDiff.HasMajorChange
HasMajorChange(d) == Core(d.To).major # Core(d.From).major

\* VersionDiff.HasMinorChange
HasMinorChange(d) == Core(d.To).minor # Core(d.From).minor

\* VersionDiff.HasPatchChange
HasPatchChange(d) == Core(d.To).patch # Core(d.From).patch

DirectionSame == "same"
DirectionUpgrade == "upgrade"
DirectionDowngrade == "downgrade"
DirectionUnknown == "unknown"

\* VersionDiff.Direction
Direction(d) ==
    IF IsSameVersion(d) THEN DirectionSame
    ELSE IF IsUpgrade(d) THEN DirectionUpgrade
    ELSE IF IsDowngrade(d) THEN DirectionDowngrade
    ELSE DirectionUnknown

(***************************************************************************)
(* One pipeline step.  The outcome of the external process is the          *)
(* environment's choice: it runs and exits 0 ("ok"), runs and exits        *)
(* non-zero ("exit"), cannot be started ("nolaunch"), or, when output is   *)
(* streamed, its pipes cannot be created ("pipe").                         *)
(***************************************************************************)
Outcomes(c) ==
    {"ok", "exit", "nolaunch"} \cup (IF c.StreamOutput THEN {"pipe"} ELSE {})

StepResult(e, l) == [err |-> e, logged |-> l]

\* Command.exec: err is whether an error is returned, logged the level of
\* the failure message written ("none" when nothing is written)
exec(c, o) ==
    IF c.StreamOutput
    THEN IF o = "pipe" THEN StepResult(TRUE, "none")
         ELSE IF o = "nolaunch" /\ c.AllowFailure THEN StepResult(FALSE, "error")
         ELSE IF o = "nolaunch" THEN StepResult(TRUE, "none")
         ELSE StepResult(FALSE, "none")
    ELSE IF o \in {"exit", "nolaunch"} /\ ~c.AllowFailure THEN StepResult(TRUE, "error")
         ELSE IF o \in {"exit", "nolaunch"} /\ c.AllowFailure THEN StepResult(FALSE, "warn")
         ELSE StepResult(FALSE, "none")

\* the disabled flag is not consulted
SkippedNever(c) == FALSE

\* Command.ExecuteWithData: a disabled step returns before exec
Skipped(c) == c.Disabled

(***************************************************************************)
(* Configurations.                                                         *)
(***************************************************************************)
CommandKinds == [Disabled : BOOLEAN, AllowFailure : BOOLEAN, StreamOutput : BOOLEAN]

\* a disabled step, and a step with no flag set
GateKinds == {c \in CommandKinds : ~c.AllowFailure /\ ~c.StreamOutput}

SeqsUpTo(S, n) == UNION {[1..k -> S] : k \in 0..n}

Releases == {v \in KnownVersions : v.pre = 0}

\* validator.version_constraint: ">= a, < b"
VersionConstraints ==
    {<< [op |-> ">=", v |-> a], [op |-> "<", v |-> b] >> :
        a \in {v \in Releases : v.minor = 0}, b \in {v \in Releases : v.minor > 0}}

ActiveKey == "active-key"
PassiveKey == "passive-key"
OtherKey == "other-key"
IdentityKeys == {ActiveKey, PassiveKey, OtherKey}
HealthValues == {"ok"}

Configs(cmdLists) ==
    [Client : Clients,
     VersionConstraint : VersionConstraints,
     ActiveIdentityPublicKey : {ActiveKey},
     PassiveIdentityPublicKey : {ActiveKey, PassiveKey},
     EnabledWhenActive : BOOLEAN,
     EnabledWhenNoActiveLeaderInGossip : BOOLEAN,
     EnableSFDPCompliance : BOOLEAN,
     Commands : cmdLists]

(***************************************************************************)
(* State.                                                                  *)
(***************************************************************************)
VARIABLES
    cfg,                     \* the Validator's configuration, fixed by New
    State,                   \* Validator.State
    pc,                      \* position in SyncVersion
    versionDiff,             \* SyncVersion's versionDiff
    hasActiveLeaderInGossip, \* result of the gossip lookup: "unset", "found", "absent"
    cmdIndex,                \* index of the step the command loop is at
    ran,                     \* steps handed to exec, in order, with outcome and log level
    calls,                   \* external queries made by the attempt, in order
    err,                     \* SyncVersion's return: "none" while running, "nil", or the error
    sfdpIn,                  \* getSFDPCompliantVersion under test: its inputs
    sfdpOut,                 \* ... and its result
    repoTags,                \* the client repository's answer to HasTaggedVersion
    readers,                 \* output reader goroutines still running, as [step, stream]
    staleFields,             \* fields of State the current attempt has not written
    mgr,                     \* position of the Manager: "once", or a place in RunOnInterval
    inProgress,              \* number of SyncVersion calls that have not returned
    diffOut,                 \* VersionDiff under test: the answers of its methods
    githubClient,            \* github.Client under test: cluster, candidate tags, result
    rpcClient,               \* rpc.Client under test: the gossip answer and the lookup's result
    compiled,                \* ExecuteWithData's compiledCmd, compiledArgs, compiledEnvironment, per call
    loop                     \* RunOnInterval's clock, interval and nextSyncTime, and the attempts' start times

vars == << cfg, State, pc, versionDiff, hasActiveLeaderInGossip, cmdIndex,
           ran, calls, err, sfdpIn, sfdpOut, repoTags, readers, staleFields,
           mgr, inProgress, diffOut, githubClient, rpcClient, compiled, loop >>

EmptyState ==
    [VersionString |-> EmptyString, Version |-> NilVersion,
     IdentityPublicKey |-> "", HealthStatus |-> ""]

NoDiff == [From |-> NilVersion, To |-> NilVersion]
NoClamp == [used |-> FALSE]

\* no method of VersionDiff, GetLatestClientVersion or
\* GetNodeWithIdentityPublicKey is under test
NoDiffOut == [used |-> FALSE]
NoDiscovery == [used |-> FALSE]
NoLookup == [used |-> FALSE]
NoLoop == [used |-> FALSE]

\* HasTaggedVersion has not been called
NoTagQuery == [asked |-> FALSE, err |-> FALSE, tags |-> {}]

StateFields == {"VersionString", "Version", "IdentityPublicKey", "HealthStatus"}

\* after New: nothing queried yet
Init ==
    /\ cfg \in Configs(SeqsUpTo(GateKinds, MaxGateCommands))
    /\ State = EmptyState
    /\ pc = "start"
    /\ versionDiff = NoDiff
    /\ hasActiveLeaderInGossip = "unset"
    /\ cmdIndex = 0
    /\ ran = << >>
    /\ calls = << >>
    /\ err = "none"
    /\ sfdpIn = NoClamp
    /\ sfdpOut = NoClamp
    /\ repoTags = NoTagQuery
    /\ readers = {}
    /\ staleFields = StateFields
    /\ mgr = "once"
    /\ inProgress = 1
    /\ diffOut = NoDiffOut
    /\ compiled = << >>
    /\ loop = NoLoop
    /\ githubClient = NoDiscovery
    /\ rpcClient = NoLookup

Finish(e) == pc' = "done" /\ err' = e

MyRole == Role(State.IdentityPublicKey, cfg.ActiveIdentityPublicKey,
               cfg.PassiveIdentityPublicKey)

(***************************************************************************)
(* Validator.refreshState: three queries, each field stored as soon as     *)
(* its query returns.                                                      *)
(***************************************************************************)
\* identity and health are never assigned
RefreshedFieldsVersionOnly(failedAt) ==
    IF failedAt = "getVersion" THEN {} ELSE {"VersionString", "Version"}

\* the fields refreshState has assigned when it returns, by the place of its
\* failure ("none": it returns nil)
RefreshedFields(failedAt) ==
    CASE failedAt = "getVersion"  -> {}
      [] failedAt = "NewVersion"  -> {"VersionString", "Version"}
      [] failedAt = "getIdentity" -> {"VersionString", "Version"}
      [] failedAt = "getHealth"   -> {"VersionString", "Version", "IdentityPublicKey"}
      [] OTHER                    -> StateFields

RefreshState ==
    /\ pc = "start"
    /\ \E vs \in Releases \cup {Garbage}, id \in IdentityKeys,
          h \in HealthValues, failAt \in {"getVersion", "getIdentity", "getHealth", "none"} :
         LET parsed == NewVersion(vs)
             s1 == [State EXCEPT !.VersionString = vs, !.Version = parsed]
             s2 == [s1 EXCEPT !.IdentityPublicKey = id]
             s3 == [s2 EXCEPT !.HealthStatus = h]
         IN  IF failAt = "getVersion"
             THEN /\ State' = State
                  /\ staleFields' = staleFields \ RefreshedFields("getVersion")
                  /\ calls' = calls \o << "getVersion" >>
                  /\ Finish("RefreshFailed")
             ELSE IF parsed = NilVersion
             THEN /\ State' = s1
                  /\ staleFields' = staleFields \ RefreshedFields("NewVersion")
                  /\ calls' = calls \o << "getVersion" >>
                  /\ Finish("RefreshFailed")
             ELSE IF failAt = "getIdentity"
             THEN /\ State' = s1
                  /\ staleFields' = staleFields \ RefreshedFields("getIdentity")
                  /\ calls' = calls \o << "getVersion", "getIdentity" >>
                  /\ Finish("RefreshFailed")
             ELSE IF failAt = "getHealth"
             THEN /\ State' = s2
                  /\ staleFields' = staleFields \ RefreshedFields("getHealth")
                  /\ calls' = calls \o << "getVersion", "getIdentity", "getHealth" >>
                  /\ Finish("RefreshFailed")
             ELSE /\ State' = s3
                  /\ staleFields' = staleFields \ RefreshedFields("none")
                  /\ calls' = calls \o << "getVersion", "getIdentity", "getHealth" >>
                  /\ pc' = "refreshed"
                  /\ err' = err
    /\ UNCHANGED << cfg, versionDiff, hasActiveLeaderInGossip, cmdIndex, ran, sfdpIn, sfdpOut,
                    repoTags, readers, mgr, inProgress,
                    diffOut, githubClient, rpcClient, compiled, loop >>

(***************************************************************************)
(* SyncVersion, the switch on the role.                                    *)
(***************************************************************************)
\* the flag is read inverted
SkipWhenActiveInverted(c) == c.EnabledWhenActive

\* line 137: an active validator is left alone unless told otherwise
SkipWhenActive(c) == ~c.EnabledWhenActive

\* the wrong flag is read
RefuseWithoutLeaderWrongFlag(c, gossip) ==
    gossip = "absent" /\ ~c.EnabledWhenActive

\* lines 150-156: a passive validator does not sync without a live leader
\* unless told otherwise
RefuseWithoutLeader(c, gossip) ==
    gossip = "absent" /\ ~c.EnabledWhenNoActiveLeaderInGossip

RoleGate ==
    /\ pc = "refreshed"
    /\ \E gossip \in {"error", "found", "absent"} :
         CASE MyRole = RoleActive ->
                /\ calls' = calls
                /\ hasActiveLeaderInGossip' = hasActiveLeaderInGossip
                /\ IF SkipWhenActive(cfg)
                   THEN Finish("nil")
                   ELSE pc' = "gated" /\ err' = err
           [] MyRole = RolePassive ->
                /\ calls' = calls \o << "getClusterNodes" >>
                /\ IF gossip = "error"
                   THEN /\ hasActiveLeaderInGossip' = hasActiveLeaderInGossip
                        /\ Finish("GossipError")
                   ELSE /\ hasActiveLeaderInGossip' = gossip
                        /\ IF RefuseWithoutLeader(cfg, gossip)
                           THEN Finish("NoActiveLeader")
                           ELSE pc' = "gated" /\ err' = err
           [] OTHER ->
                /\ calls' = calls
                /\ hasActiveLeaderInGossip' = hasActiveLeaderInGossip
                /\ Finish("UnrecognizedIdentity")
    /\ UNCHANGED << cfg, State, versionDiff, cmdIndex, ran, sfdpIn, sfdpOut,
                    repoTags, readers, staleFields, mgr, inProgress,
                    diffOut, githubClient, rpcClient, compiled, loop >>

(***************************************************************************)
(* SyncVersion, target resolution: the latest release, then, with SFDP     *)
(* compliance enabled, the clamp and the check that the clamped version    *)
(* is a tagged release.  Every response is the environment's choice.       *)
(***************************************************************************)
\* the bounds of the other client family, which SetClient must not read
OtherBounds == {EmptyString, CHOOSE v \in Releases : v.minor = 0}

RequirementsFor(client, mn, mx, other) ==
    IF client = ClientNameFiredancer
    THEN RawRequirements(other, other, mn, mx)
    ELSE RawRequirements(mn, mx, other, other)

\* line 167: the diff starts from the running version
FromState == [versionDiff EXCEPT !.From = State.Version]

\* GetLatestClientVersion fails
ReleaseLookupFails ==
    /\ versionDiff' = FromState
    /\ calls' = calls \o << "github" >>
    /\ repoTags' = repoTags
    /\ Finish("ReleaseError")

\* compliance disabled: the latest release is the target
TargetLatest ==
    /\ ~cfg.EnableSFDPCompliance
    /\ \E latest \in KnownVersions :
         /\ versionDiff' = [FromState EXCEPT !.To = latest]
         /\ calls' = calls \o << "github" >>
         /\ repoTags' = repoTags
         /\ pc' = "resolved"
         /\ err' = err

\* compliance enabled, GetLatestRequirements fails in transport or decoding
RequirementsLookupFails ==
    /\ cfg.EnableSFDPCompliance
    /\ \E latest \in KnownVersions :
         /\ versionDiff' = [FromState EXCEPT !.To = latest]
         /\ calls' = calls \o << "github", "sfdp" >>
         /\ repoTags' = repoTags
         /\ Finish("ComplianceError")

\* the tags the client repository may hold: every release, or all but one
UpstreamTagSets == {Releases} \cup {Releases \ {r} : r \in Releases}

\* the answers of the repository to HasTaggedVersion: an error, or its tags
TagAnswers ==
    {[asked |-> TRUE, err |-> TRUE, tags |-> {}]}
    \cup {[asked |-> TRUE, err |-> FALSE, tags |-> T] : T \in UpstreamTagSets}

\* github.Client.HasTaggedVersion: the version is a tag of the repository
HasTaggedVersion(tags, v) == Core(v) \in tags

\* an untagged version is accepted
RefuseUntaggedNever(repoHasSFDPCompliantVersion) == FALSE

\* lines 193-195: a compliant version that is no tag of the repository ends
\* the attempt
RefuseUntagged(repoHasSFDPCompliantVersion) == ~repoHasSFDPCompliantVersion

\* compliance enabled, a record is returned
TargetCompliant ==
    /\ cfg.EnableSFDPCompliance
    /\ \E latest \in KnownVersions, mn \in VersionStrings, mx \in VersionStrings,
          answer \in TagAnswers :
         LET other == CHOOSE v \in OtherBounds : v # EmptyString
             req == SetClient(RequirementsFor(cfg.Client, mn, mx, other), cfg.Client)
             compliant == getSFDPCompliantVersion(req, latest)
         IN  IF req.err # "nil"
             THEN /\ versionDiff' = [FromState EXCEPT !.To = latest]
                  /\ calls' = calls \o << "github", "sfdp" >>
                  /\ repoTags' = repoTags
                  /\ Finish("ComplianceError")
             ELSE IF compliant = NilVersion
             THEN /\ versionDiff' = [FromState EXCEPT !.To = latest]
                  /\ calls' = calls \o << "github", "sfdp" >>
                  /\ repoTags' = repoTags
                  /\ Finish("panic")
             ELSE IF answer.err
             THEN /\ versionDiff' = [FromState EXCEPT !.To = latest]
                  /\ calls' = calls \o << "github", "sfdp", "hasTaggedVersion" >>
                  /\ repoTags' = answer
                  /\ Finish("TagCheckError")
             ELSE IF RefuseUntagged(HasTaggedVersion(answer.tags, compliant))
             THEN /\ versionDiff' = [FromState EXCEPT !.To = latest]
                  /\ calls' = calls \o << "github", "sfdp", "hasTaggedVersion" >>
                  /\ repoTags' = answer
                  /\ Finish("TagMissing")
             ELSE /\ versionDiff' = [FromState EXCEPT !.To = compliant]
                  /\ calls' = calls \o << "github", "sfdp", "hasTaggedVersion" >>
                  /\ repoTags' = answer
                  /\ pc' = "resolved"
                  /\ err' = err

ResolveTarget ==
    /\ pc = "gated"
    /\ \/ ReleaseLookupFails
       \/ TargetLatest
       \/ RequirementsLookupFails
       \/ TargetCompliant
    /\ UNCHANGED << cfg, State, hasActiveLeaderInGossip, cmdIndex, ran, sfdpIn, sfdpOut,
                    readers, staleFields, mgr, inProgress,
                    diffOut, githubClient, rpcClient, compiled, loop >>

(***************************************************************************)
(* SyncVersion, from the no-op check to the entry of the command loop.     *)
(***************************************************************************)
\* only the first term of the constraint is checked
WithinFirstTermOnly(cons, to) ==
    OpHolds(cons[1].op, Compare(Core(to), cons[1].v))

WithinVersionConstraint(cons, to) == ConstraintCheck(cons, Core(to))

Decide ==
    /\ pc = "resolved"
    /\ IF IsSameVersion(versionDiff)
       THEN Finish("nil") /\ cmdIndex' = cmdIndex
       ELSE IF ~WithinVersionConstraint(cfg.VersionConstraint, versionDiff.To)
       THEN Finish("TargetOutOfConstraint") /\ cmdIndex' = cmdIndex
       ELSE IF Len(cfg.Commands) = 0
       THEN Finish("nil") /\ cmdIndex' = cmdIndex
       ELSE pc' = "exec" /\ err' = err /\ cmdIndex' = 1
    /\ UNCHANGED << cfg, State, versionDiff, hasActiveLeaderInGossip, ran, calls,
                    sfdpIn, sfdpOut, repoTags, readers, staleFields, mgr, inProgress,
                    diffOut, githubClient, rpcClient, compiled, loop >>

(***************************************************************************)
(* SyncVersion, one iteration of the command loop: ExecuteWithData on the  *)
(* step at cmdIndex, return on its error.                                  *)
(***************************************************************************)
ExecuteWithData ==
    /\ pc = "exec"
    /\ LET c == cfg.Commands[cmdIndex]
           last == cmdIndex = Len(cfg.Commands)
       IN  IF Skipped(c)
           THEN /\ ran' = ran
                /\ IF last THEN Finish("nil") /\ cmdIndex' = cmdIndex
                           ELSE pc' = pc /\ err' = err /\ cmdIndex' = cmdIndex + 1
           ELSE \E o \in Outcomes(c) :
                  LET r == exec(c, o)
                  IN  /\ ran' = Append(ran, [step |-> cmdIndex, outcome |-> o,
                                             logged |-> r.logged])
                      /\ IF r.err THEN Finish("StepFailed") /\ cmdIndex' = cmdIndex
                         ELSE IF last THEN Finish("nil") /\ cmdIndex' = cmdIndex
                         ELSE pc' = pc /\ err' = err /\ cmdIndex' = cmdIndex + 1
    /\ UNCHANGED << cfg, State, versionDiff, hasActiveLeaderInGossip, calls,
                    sfdpIn, sfdpOut, repoTags, readers, staleFields, mgr, inProgress,
                    diffOut, githubClient, rpcClient, compiled, loop >>

Next ==
    \/ RefreshState
    \/ RoleGate
    \/ ResolveTarget
    \/ Decide
    \/ ExecuteWithData

Spec == Init /\ [][Next]_vars

(***************************************************************************)
(* The command pipeline on its own: SyncVersion has reached the command    *)
(* loop as a passive validator with an upgrade pending, and the step list  *)
(* is any list of up to MaxCommands steps.                                 *)
(***************************************************************************)
PipelineConfigs ==
    {c \in Configs(SeqsUpTo(CommandKinds, MaxCommands) \ {<< >>}) :
        /\ c.Client = ClientNameAgave
        /\ c.PassiveIdentityPublicKey = PassiveKey
        /\ ~c.EnabledWhenActive /\ ~c.EnabledWhenNoActiveLeaderInGossip
        /\ ~c.EnableSFDPCompliance
        /\ \A t \in Releases : WithinVersionConstraint(c.VersionConstraint, t) <=> t.minor < MaxMinor}

InitPipeline ==
    /\ cfg \in PipelineConfigs
    /\ State = [VersionString |-> [major |-> 1, minor |-> 0, patch |-> 0, pre |-> 0],
                Version |-> [major |-> 1, minor |-> 0, patch |-> 0, pre |-> 0],
                IdentityPublicKey |-> PassiveKey, HealthStatus |-> "ok"]
    /\ pc = "exec"
    /\ versionDiff = [From |-> [major |-> 1, minor |-> 0, patch |-> 0, pre |-> 0],
                      To |-> [major |-> 1, minor |-> 1, patch |-> 0, pre |-> 0]]
    /\ hasActiveLeaderInGossip = "found"
    /\ cmdIndex = 1
    /\ ran = << >>
    /\ calls = << "getVersion", "getIdentity", "getHealth", "getClusterNodes", "github" >>
    /\ err = "none"
    /\ sfdpIn = NoClamp
    /\ sfdpOut = NoClamp
    /\ repoTags = NoTagQuery
    /\ readers = {}
    /\ staleFields = {}
    /\ mgr = "once"
    /\ inProgress = 1
    /\ diffOut = NoDiffOut
    /\ compiled = << >>
    /\ loop = NoLoop
    /\ githubClient = NoDiscovery
    /\ rpcClient = NoLookup

NextPipeline == ExecuteWithData

SpecPipeline == InitPipeline /\ [][NextPipeline]_vars

(***************************************************************************)
(* The compliance clamp on its own: GetLatestRequirements has decoded a    *)
(* record, SetClient resolves it for the client, and                       *)
(* getSFDPCompliantVersion clamps a target against it.                     *)
(***************************************************************************)
InitClamp ==
    /\ cfg \in {c \in Configs({<< >>}) :
                  /\ c.PassiveIdentityPublicKey = PassiveKey
                  /\ ~c.EnabledWhenActive /\ ~c.EnabledWhenNoActiveLeaderInGossip
                  /\ c.EnableSFDPCompliance
                  /\ \A t \in Releases : WithinVersionConstraint(c.VersionConstraint, t) <=> t.minor < MaxMinor}
    /\ State = EmptyState
    /\ pc = "sfdp-decoded"
    /\ versionDiff = NoDiff
    /\ hasActiveLeaderInGossip = "unset"
    /\ cmdIndex = 0
    /\ ran = << >>
    /\ calls = << >>
    /\ err = "none"
    /\ \E mn \in VersionStrings, mx \in VersionStrings, other \in OtherBounds,
          t \in KnownVersions :
         sfdpIn = [used |-> TRUE, targetVersion |-> t,
                   raw |-> RequirementsFor(cfg.Client, mn, mx, other)]
    /\ sfdpOut = NoClamp
    /\ repoTags = NoTagQuery
    /\ readers = {}
    /\ staleFields = StateFields
    /\ mgr = "once"
    /\ inProgress = 1
    /\ diffOut = NoDiffOut
    /\ compiled = << >>
    /\ loop = NoLoop
    /\ githubClient = NoDiscovery
    /\ rpcClient = NoLookup

ApplySetClient ==
    /\ pc = "sfdp-decoded"
    /\ LET req == SetClient(sfdpIn.raw, cfg.Client)
       IN  /\ sfdpOut' = [used |-> TRUE, req |-> req, result |-> NilVersion]
           /\ pc' = IF req.err = "nil" THEN "sfdp-set" ELSE "done"
           /\ err' = IF req.err = "nil" THEN err ELSE "ComplianceError"
    /\ UNCHANGED << cfg, State, versionDiff, hasActiveLeaderInGossip, cmdIndex,
                    ran, calls, sfdpIn, repoTags, readers, staleFields, mgr, inProgress,
                    diffOut, githubClient, rpcClient, compiled, loop >>

ApplyClamp ==
    /\ pc = "sfdp-set"
    /\ sfdpOut' = [sfdpOut EXCEPT
                     !.result = getSFDPCompliantVersion(sfdpOut.req, sfdpIn.targetVersion)]
    /\ pc' = "sfdp-clamped"
    /\ UNCHANGED << cfg, State, versionDiff, hasActiveLeaderInGossip, cmdIndex,
                    ran, calls, err, sfdpIn, repoTags, readers, staleFields, mgr,
                    inProgress,
                    diffOut, githubClient, rpcClient, compiled, loop >>

NextClamp == ApplySetClient \/ ApplyClamp

SpecClamp == InitClamp /\ [][NextClamp]_vars

(***************************************************************************)
(* The command pipeline with the streaming branch of Command.exec taken    *)
(* apart: the process is started and two goroutines are spawned to read    *)
(* its stdout and stderr; cmd.Wait() returns when the process has exited;  *)
(* each goroutine ends on its own, when its scanner sees the end of the    *)
(* pipe.  exec has no WaitGroup or channel on which it awaits them.        *)
(***************************************************************************)
Streams == {"stdout", "stderr"}

\* the step at cmdIndex has returned nil: the loop moves on
StepReturnsNil ==
    IF cmdIndex = Len(cfg.Commands)
    THEN Finish("nil") /\ cmdIndex' = cmdIndex
    ELSE pc' = "exec" /\ err' = err /\ cmdIndex' = cmdIndex + 1

\* a disabled step, or a step whose output is not streamed (cmd.Run)
StepAtOnce ==
    /\ pc = "exec"
    /\ Skipped(cfg.Commands[cmdIndex]) \/ ~cfg.Commands[cmdIndex].StreamOutput
    /\ ExecuteWithData

\* lines 187-232: the pipes, cmd.Start() and the two `go func()`
StreamStart ==
    /\ pc = "exec"
    /\ ~Skipped(cfg.Commands[cmdIndex]) /\ cfg.Commands[cmdIndex].StreamOutput
    /\ \E o \in {"started", "nolaunch", "pipe"} :
         LET c == cfg.Commands[cmdIndex]
             r == exec(c, o)
         IN  IF o = "started"
             THEN /\ readers' = readers \cup {[step |-> cmdIndex, stream |-> st] : st \in Streams}
                  /\ pc' = "stream-wait"
                  /\ UNCHANGED << ran, err, cmdIndex,
                    diffOut, githubClient, rpcClient, compiled, loop >>
             ELSE /\ readers' = readers
                  /\ ran' = Append(ran, [step |-> cmdIndex, outcome |-> o,
                                          logged |-> r.logged])
                  /\ IF r.err THEN Finish("StepFailed") /\ cmdIndex' = cmdIndex
                              ELSE StepReturnsNil
    /\ UNCHANGED << cfg, State, versionDiff, hasActiveLeaderInGossip, calls,
                    sfdpIn, sfdpOut, repoTags, staleFields, mgr, inProgress,
                    diffOut, githubClient, rpcClient, compiled, loop >>

\* lines 235 and 251: cmd.Wait() returns, then exec returns
StreamWait ==
    /\ pc = "stream-wait"
    /\ \E o \in {"ok", "exit"} :
         LET r == exec(cfg.Commands[cmdIndex], o)
         IN  /\ ran' = Append(ran, [step |-> cmdIndex, outcome |-> o,
                                     logged |-> r.logged])
             /\ IF r.err THEN Finish("StepFailed") /\ cmdIndex' = cmdIndex
                         ELSE StepReturnsNil
    /\ UNCHANGED << cfg, State, versionDiff, hasActiveLeaderInGossip, calls,
                    sfdpIn, sfdpOut, repoTags, readers, staleFields, mgr, inProgress,
                    diffOut, githubClient, rpcClient, compiled, loop >>

\* lines 215-232: scanner.Scan() returns false and the goroutine ends
ReaderExit ==
    /\ \E r \in readers : readers' = readers \ {r}
    /\ UNCHANGED << cfg, State, pc, versionDiff, hasActiveLeaderInGossip, cmdIndex,
                    ran, calls, err, sfdpIn, sfdpOut, repoTags, staleFields, mgr,
                    inProgress,
                    diffOut, githubClient, rpcClient, compiled, loop >>

NextStream ==
    \/ StepAtOnce
    \/ StreamStart
    \/ StreamWait
    \/ ReaderExit

SpecStream == InitPipeline /\ [][NextStream]_vars

(***************************************************************************)
(* Executor.ExecuteCommands of package command, the pipeline over          *)
(* config.Command steps, which carry dry_run and must_succeed.  One        *)
(* action is one iteration of its loop.                                    *)
(***************************************************************************)
ExecutorCommandKinds ==
    [Disabled : BOOLEAN, DryRun : BOOLEAN, AllowFailure : BOOLEAN, MustSucceed : BOOLEAN]

\* executeCommand: the arguments cannot be rendered ("render"), or the
\* process of execCmd.Run() ends as in Outcomes
ExecutorOutcomes == {"ok", "exit", "nolaunch", "render"}

\* only allow_failure is consulted
AbortsUnlessAllowed(c) == ~c.AllowFailure

\* lines 70-76: a failed step returns the error when it must succeed, and
\* when it is not allowed to fail
AbortsOnFailure(c) == c.MustSucceed \/ ~c.AllowFailure

InitExecutor ==
    /\ cfg \in {c \in Configs(SeqsUpTo(ExecutorCommandKinds, MaxGateCommands) \ {<< >>}) :
                  /\ c.Client = ClientNameAgave
                  /\ c.PassiveIdentityPublicKey = PassiveKey
                  /\ ~c.EnabledWhenActive /\ ~c.EnabledWhenNoActiveLeaderInGossip
                  /\ ~c.EnableSFDPCompliance
                  /\ \A t \in Releases : WithinVersionConstraint(c.VersionConstraint, t) <=> t.minor < MaxMinor}
    /\ State = [VersionString |-> [major |-> 1, minor |-> 0, patch |-> 0, pre |-> 0],
                Version |-> [major |-> 1, minor |-> 0, patch |-> 0, pre |-> 0],
                IdentityPublicKey |-> PassiveKey, HealthStatus |-> "ok"]
    /\ pc = "executor"
    /\ versionDiff = [From |-> [major |-> 1, minor |-> 0, patch |-> 0, pre |-> 0],
                      To |-> [major |-> 1, minor |-> 1, patch |-> 0, pre |-> 0]]
    /\ hasActiveLeaderInGossip = "found"
    /\ cmdIndex = 1
    /\ ran = << >>
    /\ calls = << "getVersion", "getIdentity", "getHealth", "getClusterNodes", "github" >>
    /\ err = "none"
    /\ sfdpIn = NoClamp
    /\ sfdpOut = NoClamp
    /\ repoTags = NoTagQuery
    /\ readers = {}
    /\ staleFields = {}
    /\ mgr = "once"
    /\ inProgress = 1
    /\ diffOut = NoDiffOut
    /\ compiled = << >>
    /\ loop = NoLoop
    /\ githubClient = NoDiscovery
    /\ rpcClient = NoLookup

ExecuteCommands ==
    /\ pc = "executor"
    /\ LET c == cfg.Commands[cmdIndex]
           last == cmdIndex = Len(cfg.Commands)
           Continue == IF last THEN Finish("nil") /\ cmdIndex' = cmdIndex
                       ELSE pc' = pc /\ err' = err /\ cmdIndex' = cmdIndex + 1
       IN  IF c.Disabled \/ c.DryRun
           THEN ran' = ran /\ Continue
           ELSE \E o \in ExecutorOutcomes :
                  IF o = "ok"
                  THEN /\ ran' = Append(ran, [step |-> cmdIndex, outcome |-> o,
                                              logged |-> "none"])
                       /\ Continue
                  ELSE IF AbortsOnFailure(c)
                  THEN /\ ran' = Append(ran, [step |-> cmdIndex, outcome |-> o,
                                              logged |-> "error"])
                       /\ Finish("StepFailed") /\ cmdIndex' = cmdIndex
                  ELSE /\ ran' = Append(ran, [step |-> cmdIndex, outcome |-> o,
                                              logged |-> "warn"])
                       /\ Continue
    /\ UNCHANGED << cfg, State, versionDiff, hasActiveLeaderInGossip, calls,
                    sfdpIn, sfdpOut, repoTags, readers, staleFields, mgr, inProgress,
                    diffOut, githubClient, rpcClient, compiled, loop >>

NextExecutor == ExecuteCommands

SpecExecutor == InitExecutor /\ [][NextExecutor]_vars

(***************************************************************************)
(* Manager.RunOnInterval: one Validator, made once by NewFromConfig, whose *)
(* SyncVersion is called again and again from one loop.  The loop sleeps   *)
(* ("sleeping"), calls runSyncVersionInterval, which calls SyncVersion and *)
(* awaits its return ("calling"), logs the result and sleeps again.  A     *)
(* panic in SyncVersion is recovered nowhere and ends the process          *)
(* ("crashed").  Validator.State is a field of the Validator and outlives  *)
(* the call; everything else SyncVersion works on is local to the call.    *)
(***************************************************************************)
ManagerConfigs ==
    {c \in Configs({<< CHOOSE k \in GateKinds : ~k.Disabled >>}) :
        /\ c.Client = ClientNameAgave
        /\ c.PassiveIdentityPublicKey = PassiveKey
        /\ \A t \in Releases : WithinVersionConstraint(c.VersionConstraint, t) <=> t.minor < MaxMinor}

InitManager ==
    /\ cfg \in ManagerConfigs
    /\ State = EmptyState
    /\ pc = "idle"
    /\ versionDiff = NoDiff
    /\ hasActiveLeaderInGossip = "unset"
    /\ cmdIndex = 0
    /\ ran = << >>
    /\ calls = << >>
    /\ err = "none"
    /\ sfdpIn = NoClamp
    /\ sfdpOut = NoClamp
    /\ repoTags = NoTagQuery
    /\ readers = {}
    /\ staleFields = StateFields
    /\ mgr = "sleeping"
    /\ inProgress = 0
    /\ diffOut = NoDiffOut
    /\ compiled = << >>
    /\ loop = NoLoop
    /\ githubClient = NoDiscovery
    /\ rpcClient = NoLookup

\* the loop calls SyncVersion without awaiting the call before
LoopAtCallUnawaited == mgr \in {"sleeping", "calling"}

\* lines 64-75: the loop is at its call of runSyncVersionInterval only when
\* the call before has returned and the sleep is over
LoopAtCall == mgr = "sleeping"

\* manager.go:65, 103: SyncVersion is entered; its locals are new
StartAttempt ==
    /\ LoopAtCall
    /\ inProgress < MaxInProgress
    /\ mgr' = "calling"
    /\ inProgress' = inProgress + 1
    /\ pc' = "start"
    /\ versionDiff' = NoDiff
    /\ hasActiveLeaderInGossip' = "unset"
    /\ cmdIndex' = 0
    /\ ran' = << >>
    /\ calls' = << >>
    /\ err' = "none"
    /\ repoTags' = NoTagQuery
    /\ staleFields' = StateFields
    /\ UNCHANGED << cfg, State, sfdpIn, sfdpOut, readers,
                    diffOut, githubClient, rpcClient, compiled, loop >>

\* manager.go:103-122 and 68-74: SyncVersion has returned, nil or an error;
\* the result is logged and the loop sleeps until the next boundary
AttemptReturns ==
    /\ mgr = "calling"
    /\ pc = "done" /\ err # "panic"
    /\ mgr' = "sleeping"
    /\ inProgress' = inProgress - 1
    /\ UNCHANGED << cfg, State, pc, versionDiff, hasActiveLeaderInGossip, cmdIndex,
                    ran, calls, err, sfdpIn, sfdpOut, repoTags, readers, staleFields,
                    diffOut, githubClient, rpcClient, compiled, loop >>

\* part_012:188: Core() is called on the nil version getSFDPCompliantVersion
\* returned; the panic unwinds through RunOnInterval
Crash ==
    /\ mgr = "calling"
    /\ pc = "done" /\ err = "panic"
    /\ mgr' = "crashed"
    /\ inProgress' = 0
    /\ UNCHANGED << cfg, State, pc, versionDiff, hasActiveLeaderInGossip, cmdIndex,
                    ran, calls, err, sfdpIn, sfdpOut, repoTags, readers, staleFields,
                    diffOut, githubClient, rpcClient, compiled, loop >>

NextManager ==
    \/ StartAttempt
    \/ RefreshState
    \/ RoleGate
    \/ ResolveTarget
    \/ Decide
    \/ ExecuteWithData
    \/ AttemptReturns
    \/ Crash

SpecManager == InitManager /\ [][NextManager]_vars

\* the loop is one goroutine that is always scheduled
SpecManagerLive == SpecManager /\ WF_vars(NextManager)

(***************************************************************************)
(* Target resolution with compliance on the releases 1.17.0 .. 1.21.0: a   *)
(* passive validator runs one of them, another is the latest release, and  *)
(* the compliance record bounds the client by any of them.  The record is  *)
(* resolved, the latest release clamped, and the result made the target    *)
(* of the diff; every one of the releases is a tag of the repository.      *)
(***************************************************************************)
InitScenario ==
    /\ cfg \in {c \in Configs({<< >>}) :
                  /\ c.PassiveIdentityPublicKey = PassiveKey
                  /\ ~c.EnabledWhenActive /\ ~c.EnabledWhenNoActiveLeaderInGossip
                  /\ c.EnableSFDPCompliance
                  /\ \A t \in Releases : WithinVersionConstraint(c.VersionConstraint, t) <=> t.minor < MaxMinor}
    /\ \E from \in ScenarioVersions, latest \in ScenarioVersions,
          mn \in ScenarioVersions \cup {EmptyString},
          mx \in ScenarioVersions \cup {EmptyString} :
         /\ State = [VersionString |-> from, Version |-> NewVersion(from),
                     IdentityPublicKey |-> PassiveKey, HealthStatus |-> "ok"]
         /\ versionDiff = [From |-> NewVersion(from), To |-> latest]
         /\ sfdpIn = [used |-> TRUE, targetVersion |-> latest,
                      raw |-> RequirementsFor(cfg.Client, mn, mx, EmptyString)]
    /\ pc = "sfdp-decoded"
    /\ hasActiveLeaderInGossip = "found"
    /\ cmdIndex = 0
    /\ ran = << >>
    /\ calls = << "getVersion", "getIdentity", "getHealth", "getClusterNodes",
                  "github", "sfdp" >>
    /\ err = "none"
    /\ sfdpOut = NoClamp
    /\ repoTags = NoTagQuery
    /\ readers = {}
    /\ staleFields = {}
    /\ mgr = "once"
    /\ inProgress = 1
    /\ diffOut = NoDiffOut
    /\ compiled = << >>
    /\ loop = NoLoop
    /\ githubClient = NoDiscovery
    /\ rpcClient = NoLookup

\* part_012:188-199: the compliant version is looked up and becomes the
\* target; Core() on a nil compliant version panics
SetTarget ==
    /\ pc = "sfdp-clamped"
    /\ IF sfdpOut.result = NilVersion
       THEN /\ Finish("panic")
            /\ UNCHANGED << versionDiff, calls, repoTags,
                    diffOut, githubClient, rpcClient, compiled, loop >>
       ELSE /\ calls' = Append(calls, "hasTaggedVersion")
            /\ repoTags' = [asked |-> TRUE, err |-> FALSE,
                            tags |-> ScenarioVersions \cup Releases]
            /\ IF RefuseUntagged(HasTaggedVersion(repoTags'.tags, sfdpOut.result))
               THEN Finish("TagMissing") /\ versionDiff' = versionDiff
               ELSE /\ versionDiff' = [versionDiff EXCEPT !.To = sfdpOut.result]
                    /\ pc' = "resolved"
                    /\ err' = err
    /\ UNCHANGED << cfg, State, hasActiveLeaderInGossip, cmdIndex, ran, sfdpIn,
                    sfdpOut, readers, staleFields, mgr, inProgress,
                    diffOut, githubClient, rpcClient, compiled, loop >>

NextScenario == ApplySetClient \/ ApplyClamp \/ SetTarget

SpecScenario == InitScenario /\ [][NextScenario]_vars

\* target resolution with compliance enabled, for every record and every
\* latest release: SetClient, the clamp, then the target is set
SpecResolve == InitClamp /\ [][NextScenario]_vars

(***************************************************************************)
(* The version comparator on its own.  A VersionDiff is built from any two *)
(* parsed versions, with every segment, the pre-release tag and the build  *)
(* metadata varying, and each of its methods is asked once.                *)
(***************************************************************************)
DiffVersions ==
    [major : {1, 2}, minor : {0, 1}, patch : {0, 1}, pre : PreTags, meta : {0, 1}]

InitDiff ==
    /\ cfg \in {c \in Configs({<< >>}) :
                  /\ c.Client = ClientNameAgave
                  /\ c.PassiveIdentityPublicKey = PassiveKey
                  /\ ~c.EnabledWhenActive /\ ~c.EnabledWhenNoActiveLeaderInGossip
                  /\ ~c.EnableSFDPCompliance
                  /\ \A t \in Releases : WithinVersionConstraint(c.VersionConstraint, t) <=> t.minor < MaxMinor}
    /\ State = EmptyState
    /\ pc = "diff"
    /\ \E from \in DiffVersions, to \in DiffVersions :
         versionDiff = [From |-> from, To |-> to]
    /\ hasActiveLeaderInGossip = "unset"
    /\ cmdIndex = 0
    /\ ran = << >>
    /\ calls = << >>
    /\ err = "none"
    /\ sfdpIn = NoClamp
    /\ sfdpOut = NoClamp
    /\ repoTags = NoTagQuery
    /\ readers = {}
    /\ staleFields = StateFields
    /\ mgr = "once"
    /\ inProgress = 1
    /\ diffOut = NoDiffOut
    /\ compiled = << >>
    /\ loop = NoLoop
    /\ githubClient = NoDiscovery
    /\ rpcClient = NoLookup

\* versiondiff.go:81-122: every method of the VersionDiff is called
AskDiff ==
    /\ pc = "diff"
    /\ diffOut' = [used |-> TRUE,
                   IsSameVersion |-> IsSameVersion(versionDiff),
                   IsUpgrade |-> IsUpgrade(versionDiff),
                   IsDowngrade |-> IsDowngrade(versionDiff),
                   HasMajorChange |-> HasMajorChange(versionDiff),
                   HasMinorChange |-> HasMinorChange(versionDiff),
                   HasPatchChange |-> HasPatchChange(versionDiff),
                   Direction |-> Direction(versionDiff)]
    /\ pc' = "done"
    /\ UNCHANGED << cfg, State, versionDiff, hasActiveLeaderInGossip, cmdIndex,
                    ran, calls, err, sfdpIn, sfdpOut, repoTags, readers,
                    staleFields, mgr, inProgress, githubClient, rpcClient, compiled, loop >>

NextDiff == AskDiff

SpecDiff == InitDiff /\ [][NextDiff]_vars

(***************************************************************************)
(* The compliance client on its own: the API's answer is a transport       *)
(* failure, a bad status, an undecodable body, an error message or a list  *)
(* of epoch records in any order; GetLatestRequirements picks one record   *)
(* and resolves the client's bounds from it, and the clamp follows.        *)
(***************************************************************************)
EpochRecords ==
    {[Epoch |-> e,
      AgaveMinVersion |-> mn,
      AgaveMaxVersion |-> [major |-> 1, minor |-> MaxMinor, patch |-> 0, pre |-> 0],
      FiredancerMinVersion |-> mn,
      FiredancerMaxVersion |-> EmptyString] :
        e \in 1..MaxEpoch,
        mn \in {v \in KnownVersions : v.pre = 0 /\ v.minor < MaxMinor}}

SFDPResponses ==
    [status : {"transport", "not-ok", "undecodable", "api-error"}, Data : {<< >>}]
    \cup [status : {"ok"}, Data : SeqsUpTo(EpochRecords, MaxEpochRecords)]

InitEpochs ==
    /\ cfg \in {c \in Configs({<< >>}) :
                  /\ c.PassiveIdentityPublicKey = PassiveKey
                  /\ ~c.EnabledWhenActive /\ ~c.EnabledWhenNoActiveLeaderInGossip
                  /\ c.EnableSFDPCompliance
                  /\ \A t \in Releases : WithinVersionConstraint(c.VersionConstraint, t) <=> t.minor < MaxMinor}
    /\ State = EmptyState
    /\ pc = "sfdp-call"
    /\ versionDiff = NoDiff
    /\ hasActiveLeaderInGossip = "unset"
    /\ cmdIndex = 0
    /\ ran = << >>
    /\ calls = << >>
    /\ err = "none"
    /\ \E resp \in SFDPResponses :
         sfdpIn = [used |-> TRUE,
                   targetVersion |-> [major |-> 1, minor |-> 0, patch |-> 0, pre |-> 0],
                   response |-> resp]
    /\ sfdpOut = NoClamp
    /\ repoTags = NoTagQuery
    /\ readers = {}
    /\ staleFields = StateFields
    /\ mgr = "once"
    /\ inProgress = 1
    /\ diffOut = NoDiffOut
    /\ compiled = << >>
    /\ loop = NoLoop
    /\ githubClient = NoDiscovery
    /\ rpcClient = NoLookup

\* part_009:48-100: every failure of the call and an empty list are errors;
\* otherwise the latest record is picked and SetClient is applied to it
GetLatestRequirements ==
    /\ pc = "sfdp-call"
    /\ calls' = Append(calls, "sfdp")
    /\ IF sfdpIn.response.status # "ok" \/ sfdpIn.response.Data = << >>
       THEN /\ pc' = "done"
            /\ err' = "ComplianceError"
            /\ UNCHANGED << sfdpIn, sfdpOut, compiled, loop >>
       ELSE LET latest == LatestRequirements(sfdpIn.response.Data)
                req == SetClient(latest, cfg.Client)
            IN  /\ sfdpIn' = [used |-> TRUE, targetVersion |-> sfdpIn.targetVersion,
                               response |-> sfdpIn.response, raw |-> latest]
                /\ sfdpOut' = [used |-> TRUE, req |-> req, result |-> NilVersion]
                /\ pc' = IF req.err = "nil" THEN "sfdp-set" ELSE "done"
                /\ err' = IF req.err = "nil" THEN err ELSE "ComplianceError"
    /\ UNCHANGED << cfg, State, versionDiff, hasActiveLeaderInGossip, cmdIndex,
                    ran, repoTags, readers, staleFields, mgr, inProgress,
                    diffOut, githubClient, rpcClient, compiled, loop >>

NextEpochs == GetLatestRequirements \/ ApplyClamp

SpecEpochs == InitEpochs /\ [][NextEpochs]_vars

(***************************************************************************)
(* The release discoverer on its own.  The release list is fetched or the  *)
(* call fails; the client's matching rule (release body for agave, release *)
(* title for the others) has left, for each cluster, the tags of the       *)
(* matching releases.  A tag is a version string or garbage.               *)
(***************************************************************************)
ClusterNameMainnetBeta == "mainnet-beta"
ClusterNameTestnet == "testnet"
ValidClusterNames == {ClusterNameMainnetBeta, ClusterNameTestnet}

ReleaseTags == {v \in KnownVersions : v.minor < MaxMinor} \cup {Garbage}

\* sortedVersionsFromVersionStrings and the pick of the last element: a tag
\* that does not parse leaves a nil in the slice, on which the sort or the
\* Debug line's Core() panics; an empty slice is indexed at -1
LatestOfCluster(tags) ==
    IF tags = {} \/ Garbage \in tags THEN NilVersion
    ELSE CHOOSE v \in tags : \A w \in tags : Compare(w, v) <= 0

\* no cluster's list is looked at
NoReleasesFoundNever(versionStrings) == FALSE

\* github/client.go:119-124: the loop runs over every cluster's list
NoReleasesFound(versionStrings) ==
    \E cluster \in DOMAIN versionStrings : versionStrings[cluster] = {}

\* the mainnet version is taken when it is behind
PreferMainnetWhenBehind(cluster, mainnet, latest) ==
    cluster = ClusterNameTestnet /\ Compare(mainnet, latest) < 0

\* github/client.go:136: the condition of the substitution
PreferMainnet(cluster, mainnet, latest) ==
    cluster = ClusterNameTestnet /\ Compare(mainnet, latest) > 0

InitDiscover ==
    /\ cfg \in {c \in Configs({<< >>}) :
                  /\ c.PassiveIdentityPublicKey = PassiveKey
                  /\ ~c.EnabledWhenActive /\ ~c.EnabledWhenNoActiveLeaderInGossip
                  /\ ~c.EnableSFDPCompliance
                  /\ \A t \in Releases : WithinVersionConstraint(c.VersionConstraint, t) <=> t.minor < MaxMinor}
    /\ State = EmptyState
    /\ pc = "github-call"
    /\ versionDiff = NoDiff
    /\ hasActiveLeaderInGossip = "unset"
    /\ cmdIndex = 0
    /\ ran = << >>
    /\ calls = << >>
    /\ err = "none"
    /\ sfdpIn = NoClamp
    /\ sfdpOut = NoClamp
    /\ repoTags = NoTagQuery
    /\ readers = {}
    /\ staleFields = StateFields
    /\ mgr = "once"
    /\ inProgress = 1
    /\ diffOut = NoDiffOut
    /\ compiled = << >>
    /\ loop = NoLoop
    /\ \E cluster \in ValidClusterNames, listed \in BOOLEAN,
          versionStrings \in [ValidClusterNames -> SUBSET ReleaseTags] :
         githubClient = [used |-> TRUE, cluster |-> cluster, listed |-> listed,
                         versionStrings |-> versionStrings,
                         latestVersion |-> NilVersion, warned |-> FALSE]
    /\ rpcClient = NoLookup

\* github/client.go:91-147
GetLatestClientVersion ==
    /\ pc = "github-call"
    /\ calls' = Append(calls, "github")
    /\ pc' = "done"
    /\ LET vs == githubClient.versionStrings
           latestClusterVersion == [c \in ValidClusterNames |-> LatestOfCluster(vs[c])]
           own == latestClusterVersion[githubClient.cluster]
           mainnet == latestClusterVersion[ClusterNameMainnetBeta]
       IN  IF ~githubClient.listed
           THEN err' = "ReleaseError" /\ githubClient' = githubClient
           ELSE IF NoReleasesFound(vs)
           THEN err' = "NoMatchingReleases" /\ githubClient' = githubClient
           ELSE IF \E c \in ValidClusterNames : latestClusterVersion[c] = NilVersion
           THEN err' = "panic" /\ githubClient' = githubClient
           ELSE /\ err' = "nil"
                /\ githubClient' =
                     IF PreferMainnet(githubClient.cluster, mainnet, own)
                     THEN [githubClient EXCEPT !.latestVersion = mainnet,
                                               !.warned = TRUE]
                     ELSE [githubClient EXCEPT !.latestVersion = own]
    /\ UNCHANGED << cfg, State, versionDiff, hasActiveLeaderInGossip, cmdIndex,
                    ran, sfdpIn, sfdpOut, repoTags, readers, staleFields, mgr,
                    inProgress, diffOut, rpcClient, compiled, loop >>

NextDiscover == GetLatestClientVersion

SpecDiscover == InitDiscover /\ [][NextDiscover]_vars

(***************************************************************************)
(* The gossip lookup on its own.  getClusterNodes fails in transport, is   *)
(* answered with an RPC error, with a result that is no array or with an   *)
(* item that is no object, or yields the nodes' pubkeys in gossip order; a *)
(* node whose pubkey is no string has the empty pubkey.                    *)
(***************************************************************************)
NoPubkey == ""

ClusterNodesAnswers ==
    [status : {"transport", "rpc-error", "not-array", "bad-node"}, nodes : {<< >>}]
    \cup [status : {"ok"},
          nodes : SeqsUpTo(IdentityKeys \cup {NoPubkey}, MaxGossipNodes)]

\* "not found" is reported as an error
LookupErrorWhenAbsent(fetched, found) ==
    IF fetched /\ found THEN "nil" ELSE "ClusterNodesError"

\* rpc/client.go:233-244: the error return of the lookup
LookupError(fetched, found) ==
    IF fetched THEN "nil" ELSE "ClusterNodesError"

InitLookup ==
    /\ cfg \in {c \in Configs({<< >>}) :
                  /\ c.PassiveIdentityPublicKey = PassiveKey
                  /\ ~c.EnabledWhenActive /\ ~c.EnabledWhenNoActiveLeaderInGossip
                  /\ ~c.EnableSFDPCompliance
                  /\ \A t \in Releases : WithinVersionConstraint(c.VersionConstraint, t) <=> t.minor < MaxMinor}
    /\ State = EmptyState
    /\ pc = "gossip-call"
    /\ versionDiff = NoDiff
    /\ hasActiveLeaderInGossip = "unset"
    /\ cmdIndex = 0
    /\ ran = << >>
    /\ calls = << >>
    /\ err = "none"
    /\ sfdpIn = NoClamp
    /\ sfdpOut = NoClamp
    /\ repoTags = NoTagQuery
    /\ readers = {}
    /\ staleFields = StateFields
    /\ mgr = "once"
    /\ inProgress = 1
    /\ diffOut = NoDiffOut
    /\ compiled = << >>
    /\ loop = NoLoop
    /\ githubClient = NoDiscovery
    /\ \E answer \in ClusterNodesAnswers, identityPublicKey \in IdentityKeys :
         rpcClient = [used |-> TRUE, answer |-> answer,
                      identityPublicKey |-> identityPublicKey,
                      found |-> FALSE, node |-> 0, err |-> "none"]

\* rpc/client.go:229-245 with getClusterNodes, 176-205: found, the first
\* matching node and the error
GetNodeWithIdentityPublicKey ==
    /\ pc = "gossip-call"
    /\ calls' = Append(calls, "getClusterNodes")
    /\ pc' = "done"
    /\ LET nodes == rpcClient.answer.nodes
           fetched == rpcClient.answer.status = "ok"
           matches == {i \in 1..Len(nodes) : nodes[i] = rpcClient.identityPublicKey}
           found == fetched /\ matches # {}
           first == IF found
                    THEN CHOOSE i \in matches : \A j \in matches : i <= j
                    ELSE 0
       IN  rpcClient' = [rpcClient EXCEPT !.found = found, !.node = first,
                                          !.err = LookupError(fetched, found)]
    /\ UNCHANGED << cfg, State, versionDiff, hasActiveLeaderInGossip, cmdIndex,
                    ran, err, sfdpIn, sfdpOut, repoTags, readers, staleFields,
                    mgr, inProgress, diffOut, githubClient, compiled, loop >>

NextLookup == GetNodeWithIdentityPublicKey

SpecLookup == InitLookup /\ [][NextLookup]_vars

(***************************************************************************)
(* Start-up.  The root command loads and validates the configuration       *)
(* file, the run command builds the manager, which builds the Validator,   *)
(* and only then the first attempt is made.  The file names any client     *)
(* and cluster, its version constraint may not parse, and each step's      *)
(* templates parse or are malformed.                                       *)
(***************************************************************************)
InvalidClient == "invalid-client"
InvalidCluster == "devnet"

TemplateKinds ==
    [Disabled : {FALSE}, AllowFailure : {FALSE}, StreamOutput : {FALSE},
     Templates : {"parse", "malformed"}]

FileConfigs ==
    [Client : Clients \cup {InvalidClient},
     Cluster : ValidClusterNames \cup {InvalidCluster},
     VersionConstraint : VersionConstraints \cup {NilConstraint},
     ActiveIdentityPublicKey : {ActiveKey},
     PassiveIdentityPublicKey : {PassiveKey},
     EnabledWhenActive : {FALSE},
     EnabledWhenNoActiveLeaderInGossip : {FALSE},
     EnableSFDPCompliance : {FALSE},
     Commands : SeqsUpTo(TemplateKinds, MaxGateCommands)]

\* constants.ValidateClientName and ValidateClusterName: the error return
ValidateClientName(clientName) == clientName \notin Clients
ValidateClusterName(clusterName) == clusterName \notin ValidClusterNames

\* Validator.setVersionConstraint: the error return of NewConstraint
setVersionConstraint(versionConstraint) == versionConstraint = NilConstraint

\* github.NewClient: the error return, no repository for the client
NewClient(client) == client \notin Clients

\* the templates are stored without being parsed
ParseNeverFails(c) == FALSE

\* Command.Parse: the error return
Parse(c) == c.Templates = "malformed"

InitConstruct ==
    /\ cfg \in FileConfigs
    /\ State = EmptyState
    /\ pc = "config-file"
    /\ versionDiff = NoDiff
    /\ hasActiveLeaderInGossip = "unset"
    /\ cmdIndex = 0
    /\ ran = << >>
    /\ calls = << >>
    /\ err = "none"
    /\ sfdpIn = NoClamp
    /\ sfdpOut = NoClamp
    /\ repoTags = NoTagQuery
    /\ readers = {}
    /\ staleFields = StateFields
    /\ mgr = "none"
    /\ inProgress = 0
    /\ diffOut = NoDiffOut
    /\ compiled = << >>
    /\ loop = NoLoop
    /\ githubClient = NoDiscovery
    /\ rpcClient = NoLookup

\* config.go NewFromConfigFile, Initialize and validate, and the root
\* command's log.Fatal on its error
NewFromConfigFile ==
    /\ pc = "config-file"
    /\ IF ValidateClientName(cfg.Client) \/ ValidateClusterName(cfg.Cluster)
       THEN Finish("ConfigurationError")
       ELSE pc' = "config-loaded" /\ err' = err
    /\ UNCHANGED << cfg, State, versionDiff, hasActiveLeaderInGossip, cmdIndex,
                    ran, calls, sfdpIn, sfdpOut, repoTags, readers, staleFields,
                    mgr, inProgress, diffOut, githubClient, rpcClient, compiled, loop >>

\* manager.NewFromConfig and validator.New: the constraint is parsed, the
\* clients are created (the error of github.NewClient is overwritten
\* unread, the client is then nil), every step is parsed
NewFromConfig ==
    /\ pc = "config-loaded"
    /\ IF setVersionConstraint(cfg.VersionConstraint)
          \/ \E i \in 1..Len(cfg.Commands) : Parse(cfg.Commands[i])
       THEN Finish("ConstructionError") /\ githubClient' = githubClient
       ELSE /\ pc' = "constructed"
            /\ err' = err
            /\ githubClient' = [used |-> FALSE, nil |-> NewClient(cfg.Client)]
    /\ UNCHANGED << cfg, State, versionDiff, hasActiveLeaderInGossip, cmdIndex,
                    ran, calls, sfdpIn, sfdpOut, repoTags, readers, staleFields,
                    mgr, inProgress, diffOut, rpcClient, compiled, loop >>

\* manager.go:42-46, RunOnce: the first attempt is entered
RunOnce ==
    /\ pc = "constructed"
    /\ pc' = "start"
    /\ mgr' = "once"
    /\ inProgress' = 1
    /\ UNCHANGED << cfg, State, versionDiff, hasActiveLeaderInGossip, cmdIndex,
                    ran, calls, err, sfdpIn, sfdpOut, repoTags, readers,
                    staleFields, diffOut, githubClient, rpcClient, compiled, loop >>

NextConstruct == NewFromConfigFile \/ NewFromConfig \/ RunOnce

SpecConstruct == InitConstruct /\ [][NextConstruct]_vars

(***************************************************************************)
(* Command templates.  A parsed template is its sequence of nodes: "text"  *)
(* is literal text, "VersionFrom" and "VersionTo" are the actions          *)
(* {{.VersionFrom}} and {{.VersionTo}}, and "NoSuchField" is an action on  *)
(* a field CommandTemplateData does not have, which Parse accepts and      *)
(* Execute fails on.  Execute writes node after node to its buffer and     *)
(* stops at the first node that fails: what was written before stays in    *)
(* the buffer.                                                             *)
(***************************************************************************)
MaxAttempts == 2

TemplateNodes == {"text", "VersionFrom", "VersionTo", "NoSuchField"}

\* "v", "{{.VersionTo}}" and "{{.VersionTo}}{{.NoSuchField}}v"
TemplateTexts == { << "text" >>, << "VersionTo" >>, << "VersionTo", "NoSuchField", "text" >> }

\* version.String() of a Core() version
String(v) == ToString(v.major) \o "." \o ToString(v.minor) \o "." \o ToString(v.patch)

\* part_012:233-246: the data SyncVersion hands to the step at index cmd_i
CommandTemplateData(cmd_i, count, diff) ==
    [CommandIndex |-> cmd_i, CommandsCount |-> count,
     VersionFrom |-> String(Core(diff.From)), VersionTo |-> String(Core(diff.To))]

RECURSIVE ExecuteFrom(_, _, _, _)
ExecuteFrom(t, data, i, buf) ==
    IF i > Len(t) THEN [out |-> buf, err |-> FALSE]
    ELSE IF t[i] = "NoSuchField" THEN [out |-> buf, err |-> TRUE]
    ELSE ExecuteFrom(t, data, i + 1,
                     buf \o (IF t[i] = "text" THEN "v" ELSE data[t[i]]))

\* a rendering that remembers how often the step was rendered
ExecuteCounting(t, data) ==
    LET r == ExecuteFrom(t, data, 1, "")
    IN  [r EXCEPT !.out = @ \o ToString(Len(compiled))]

\* template.Execute(&buf, data): the buffer's content and whether an error
\* is returned
Execute(t, data) == ExecuteFrom(t, data, 1, "")

\* a step's environment: no variable, or the one variable E
Environments == { << >> } \cup { [n \in {"E"} |-> t] : t \in TemplateTexts }

RenderCommands ==
    [Disabled : BOOLEAN, AllowFailure : {FALSE}, StreamOutput : {FALSE},
     Cmd : TemplateTexts, Args : SeqsUpTo(TemplateTexts, 1), Environment : Environments]

\* an upgrade or a downgrade between releases the constraint allows
RenderDiffs ==
    { [From |-> [major |-> 1, minor |-> f, patch |-> 0, pre |-> 0],
       To |-> [major |-> 1, minor |-> t, patch |-> 0, pre |-> 0]] :
          f \in 0..(MaxMinor - 1), t \in 0..(MaxMinor - 1) } \
    { d \in [From : Releases, To : Releases] : d.From = d.To }

\* Validator.State as refreshState leaves it for a version difference
RenderState(diff) ==
    [VersionString |-> diff.From, Version |-> diff.From,
     IdentityPublicKey |-> PassiveKey, HealthStatus |-> "ok"]

InitRender ==
    /\ cfg \in {c \in Configs([1..1 -> RenderCommands]) :
                  /\ c.Client = ClientNameAgave
                  /\ c.PassiveIdentityPublicKey = PassiveKey
                  /\ ~c.EnabledWhenActive /\ ~c.EnabledWhenNoActiveLeaderInGossip
                  /\ ~c.EnableSFDPCompliance
                  /\ \A t \in Releases :
                        WithinVersionConstraint(c.VersionConstraint, t) <=> t.minor < MaxMinor}
    /\ versionDiff \in RenderDiffs
    /\ State = RenderState(versionDiff)
    /\ pc = "exec"
    /\ hasActiveLeaderInGossip = "found"
    /\ cmdIndex = 1
    /\ ran = << >>
    /\ calls = << "getVersion", "getIdentity", "getHealth", "getClusterNodes", "github" >>
    /\ err = "none"
    /\ sfdpIn = NoClamp
    /\ sfdpOut = NoClamp
    /\ repoTags = NoTagQuery
    /\ readers = {}
    /\ staleFields = {}
    /\ mgr = "calling"
    /\ inProgress = 1
    /\ diffOut = NoDiffOut
    /\ compiled = << >>
    /\ loop = NoLoop
    /\ githubClient = NoDiscovery
    /\ rpcClient = NoLookup

\* command.go:124-145: the three renderings of ExecuteWithData.  The error
\* Execute returns is not assigned; compiledArgs starts as len(argsTemplates)
\* empty strings and the rendered arguments are appended to it.
Compile(c, data) ==
    LET cmd  == Execute(c.Cmd, data)
        args == [j \in 1..Len(c.Args) |-> Execute(c.Args[j], data)]
        env  == [n \in DOMAIN c.Environment |-> Execute(c.Environment[n], data)]
    IN  [data |-> data,
         compiledCmd |-> cmd.out,
         compiledArgs |-> [j \in 1..Len(c.Args) |-> ""] \o [j \in 1..Len(c.Args) |-> args[j].out],
         compiledEnvironment |-> [n \in DOMAIN c.Environment |-> env[n].out],
         renderFailed |-> \/ cmd.err
                          \/ \E j \in 1..Len(c.Args) : args[j].err
                          \/ \E n \in DOMAIN c.Environment : env[n].err]

\* Command.ExecuteWithData with its templates: render, return nil for a
\* disabled step, hand the rendered values to exec otherwise; and the return
\* on its error in SyncVersion's loop
ExecuteWithDataCompiled ==
    /\ pc = "exec"
    /\ LET c == cfg.Commands[cmdIndex]
           last == cmdIndex = Len(cfg.Commands)
           r == Compile(c, CommandTemplateData(cmdIndex - 1, Len(cfg.Commands), versionDiff))
       IN  IF c.Disabled
           THEN /\ ran' = ran
                /\ compiled' = Append(compiled, r @@ [launched |-> FALSE, err |-> FALSE])
                /\ IF last THEN Finish("nil") /\ cmdIndex' = cmdIndex
                           ELSE pc' = pc /\ err' = err /\ cmdIndex' = cmdIndex + 1
           ELSE \E o \in Outcomes(c) :
                  LET x == exec(c, o)
                  IN  /\ ran' = Append(ran, [step |-> cmdIndex, outcome |-> o,
                                             logged |-> x.logged])
                      /\ compiled' = Append(compiled, r @@ [launched |-> TRUE, err |-> x.err])
                      /\ IF x.err THEN Finish("StepFailed") /\ cmdIndex' = cmdIndex
                         ELSE IF last THEN Finish("nil") /\ cmdIndex' = cmdIndex
                         ELSE pc' = pc /\ err' = err /\ cmdIndex' = cmdIndex + 1
    /\ UNCHANGED << cfg, State, versionDiff, hasActiveLeaderInGossip, calls,
                    sfdpIn, sfdpOut, repoTags, readers, staleFields, mgr, inProgress,
                    diffOut, githubClient, rpcClient, loop >>

\* the attempts SyncVersion has made at its command loop
Attempts == Cardinality({k \in 1..Len(compiled) : compiled[k].data.CommandIndex = 0})

\* manager.go:64-66, 103-105: the interval loop calls SyncVersion again on the
\* same Validator and the same parsed commands; the attempt reaches the
\* command loop with the version difference it has found
SyncVersionAgain ==
    /\ pc = "done"
    /\ Attempts < MaxAttempts
    /\ pc' = "exec"
    /\ cmdIndex' = 1
    /\ ran' = << >>
    /\ err' = "none"
    /\ versionDiff' \in RenderDiffs
    /\ State' = RenderState(versionDiff')
    /\ UNCHANGED << cfg, hasActiveLeaderInGossip, calls,
                    sfdpIn, sfdpOut, repoTags, readers, staleFields, mgr, inProgress,
                    diffOut, githubClient, rpcClient, compiled, loop >>

NextRender == ExecuteWithDataCompiled \/ SyncVersionAgain

SpecRender == InitRender /\ [][NextRender]_vars

(***************************************************************************)
(* Interval boundaries.  Time is counted in whole units from midnight of   *)
(* day 0; a day has DayLength units.  A time.Duration is a signed integer  *)
(* of DurationBits bits, and a day fits in it many times over, as 24 hours *)
(* fit in the 64 bits of Go's Duration.                                    *)
(***************************************************************************)
DayLength == 4
MaxDays == 3
DurationBits == 5

MaxDuration == 2 ^ (DurationBits - 1) - 1

\* two's-complement addition of Durations
AddDuration(a, b) ==
    LET m == 2 ^ DurationBits
        x == (a + b) % m
    IN  IF x > MaxDuration THEN x - m ELSE x

\* Duration.Truncate: d rounded toward zero to a multiple of m, d itself
\* when m is not positive
Truncate(d, m) == IF m <= 0 THEN d ELSE d - (d % m)

\* the next boundary at or after now
calculateNextBoundaryCeil(now, intervalDuration) ==
    LET startOfDay == (now \div DayLength) * DayLength
        durationSinceMidnight == now - startOfDay
    IN  IF intervalDuration > 0 /\ durationSinceMidnight % intervalDuration = 0 THEN now
        ELSE startOfDay + AddDuration(Truncate(durationSinceMidnight, intervalDuration),
                                      intervalDuration)

\* Manager.calculateNextBoundary
calculateNextBoundary(now, intervalDuration) ==
    LET startOfDay == (now \div DayLength) * DayLength
        durationSinceMidnight == now - startOfDay
        truncatedDuration == Truncate(durationSinceMidnight, intervalDuration)
        nextBoundaryDuration == AddDuration(truncatedDuration, intervalDuration)
    IN  startOfDay + nextBoundaryDuration

\* the instants calculateNextBoundary is asked about, and the positive
\* intervals
Instants == 0..(MaxDays * DayLength - 1)
Intervals == 1..MaxDuration

InitBoundary ==
    /\ cfg \in {c \in Configs({<< >>}) :
                  /\ c.Client = ClientNameAgave
                  /\ c.PassiveIdentityPublicKey = PassiveKey
                  /\ ~c.EnabledWhenActive /\ ~c.EnabledWhenNoActiveLeaderInGossip
                  /\ ~c.EnableSFDPCompliance
                  /\ \A t \in Releases :
                        WithinVersionConstraint(c.VersionConstraint, t) <=> t.minor < MaxMinor}
    /\ State = EmptyState
    /\ pc = "boundary"
    /\ versionDiff = NoDiff
    /\ hasActiveLeaderInGossip = "unset"
    /\ cmdIndex = 0
    /\ ran = << >>
    /\ calls = << >>
    /\ err = "none"
    /\ sfdpIn = NoClamp
    /\ sfdpOut = NoClamp
    /\ repoTags = NoTagQuery
    /\ readers = {}
    /\ staleFields = StateFields
    /\ mgr = "none"
    /\ inProgress = 0
    /\ diffOut = NoDiffOut
    /\ compiled = << >>
    /\ githubClient = NoDiscovery
    /\ rpcClient = NoLookup
    /\ \E now \in Instants, intervalDuration \in Intervals :
          loop = [used |-> FALSE, now |-> now, intervalDuration |-> intervalDuration]

CalculateNextBoundary ==
    /\ pc = "boundary"
    /\ pc' = "done"
    /\ loop' = [used |-> TRUE, now |-> loop.now, intervalDuration |-> loop.intervalDuration,
                nextBoundary |-> calculateNextBoundary(loop.now, loop.intervalDuration)]
    /\ UNCHANGED << cfg, State, versionDiff, hasActiveLeaderInGossip, cmdIndex, ran,
                    calls, err, sfdpIn, sfdpOut, repoTags, readers, staleFields, mgr,
                    inProgress, diffOut, githubClient, rpcClient, compiled >>

NextBoundary == CalculateNextBoundary

SpecBoundary == InitBoundary /\ [][NextBoundary]_vars

(***************************************************************************)
(* Manager.RunOnInterval with its clock.  The --on-interval flag is any    *)
(* Duration but 0.  time.Sleep pauses for at least the duration asked, and *)
(* an attempt (SyncVersion) takes as long as it takes; both are the        *)
(* environment's choice, up to MaxOversleep and MaxRunTime.  The attempts  *)
(* are recorded with the instants SyncVersion is entered and left.         *)
(***************************************************************************)
MaxStarts == 3
MaxRunTime == 5
MaxOversleep == 1

\* part_017:53, 66: RunOnInterval is called for every interval that is not 0
IntervalFlags == {-2, -1} \cup 1..(DayLength + 1)

\* time.Sleep(nextSyncTime.Sub(now)) when the wait is positive: the instants
\* at which the loop may go on
Sleep(now, nextSyncTime) ==
    IF nextSyncTime > now THEN nextSyncTime..(nextSyncTime + MaxOversleep) ELSE {now}

InitInterval ==
    /\ cfg \in {c \in Configs({<< >>}) :
                  /\ c.Client = ClientNameAgave
                  /\ c.PassiveIdentityPublicKey = PassiveKey
                  /\ ~c.EnabledWhenActive /\ ~c.EnabledWhenNoActiveLeaderInGossip
                  /\ ~c.EnableSFDPCompliance
                  /\ \A t \in Releases :
                        WithinVersionConstraint(c.VersionConstraint, t) <=> t.minor < MaxMinor}
    /\ State = EmptyState
    /\ pc = "constructed"
    /\ versionDiff = NoDiff
    /\ hasActiveLeaderInGossip = "unset"
    /\ cmdIndex = 0
    /\ ran = << >>
    /\ calls = << >>
    /\ err = "none"
    /\ sfdpIn = NoClamp
    /\ sfdpOut = NoClamp
    /\ repoTags = NoTagQuery
    /\ readers = {}
    /\ staleFields = StateFields
    /\ mgr = "none"
    /\ inProgress = 0
    /\ diffOut = NoDiffOut
    /\ compiled = << >>
    /\ githubClient = NoDiscovery
    /\ rpcClient = NoLookup
    /\ \E now \in 0..(DayLength - 1), intervalDuration \in IntervalFlags :
          loop = [used |-> FALSE, clock |-> now, startedAt |-> now,
                  intervalDuration |-> intervalDuration, attempts |-> << >>]

\* manager.go:53-61: the first boundary is calculated and waited for
RunOnInterval ==
    /\ pc = "constructed"
    /\ pc' = "interval"
    /\ mgr' = "sleeping"
    /\ LET now == loop.clock
           nextSyncTime == calculateNextBoundary(now, loop.intervalDuration)
       IN  \E woken \in Sleep(now, nextSyncTime) :
              loop' = [loop EXCEPT !.used = TRUE, !.clock = woken]
    /\ UNCHANGED << cfg, State, versionDiff, hasActiveLeaderInGossip, cmdIndex, ran,
                    calls, err, sfdpIn, sfdpOut, repoTags, readers, staleFields,
                    inProgress, diffOut, githubClient, rpcClient, compiled >>

\* manager.go:64-75: one turn of the loop: runSyncVersionInterval calls
\* SyncVersion and awaits it, then the next boundary after the instant it
\* returned is calculated and waited for
runSyncVersionInterval ==
    /\ pc = "interval"
    /\ Len(loop.attempts) < MaxStarts
    /\ \E took \in 0..MaxRunTime :
          LET entered == loop.clock
              now == entered + took
              nextSyncTime == calculateNextBoundary(now, loop.intervalDuration)
          IN  \E woken \in Sleep(now, nextSyncTime) :
                 loop' = [loop EXCEPT !.clock = woken,
                                      !.attempts = Append(@, [entered |-> entered,
                                                              returned |-> now])]
    /\ UNCHANGED << cfg, State, pc, versionDiff, hasActiveLeaderInGossip, cmdIndex, ran,
                    calls, err, sfdpIn, sfdpOut, repoTags, readers, staleFields, mgr,
                    inProgress, diffOut, githubClient, rpcClient, compiled >>

NextInterval == RunOnInterval \/ runSyncVersionInterval

SpecInterval == InitInterval /\ [][NextInterval]_vars

(***************************************************************************)
(* Properties.                                                             *)
(***************************************************************************)
StepOf(k) == cfg.Commands[ran[k].step]

Failed(k) == ran[k].outcome \in {"exit", "nolaunch"}

\* the failure of the k-th executed step ended the pipeline with an error
AbortedAt(k) == k = Len(ran) /\ pc = "done" /\ err = "StepFailed"

\* C1: a step without allowFailure that exits non-zero or fails to launch
\* aborts the pipeline: it is the last step executed and the attempt returns
\* its error.
C1_FailureAbortsPipeline ==
    \A k \in 1..Len(ran) :
        (~StepOf(k).AllowFailure /\ Failed(k)) => AbortedAt(k)

\* C2: a step with allowFailure that exits non-zero or fails to launch has
\* its failure logged as a warning and does not abort the pipeline.
C2_AllowedFailureWarnsAndContinues ==
    \A k \in 1..Len(ran) :
        (StepOf(k).AllowFailure /\ Failed(k)) =>
            (ran[k].logged = "warn" /\ ~AbortedAt(k))

\* the declared steps that are not disabled, in declared order
EnabledSteps ==
    LET Enabled(i) == ~cfg.Commands[i].Disabled
    IN  SelectSeq([i \in 1..Len(cfg.Commands) |-> i], Enabled)

RanSteps == [k \in 1..Len(ran) |-> ran[k].step]

\* the command loop has gone through its last step without an error
LoopCompleted ==
    pc = "done" /\ err = "nil" /\ cmdIndex > 0 /\ cmdIndex = Len(cfg.Commands)

\* C3: the steps executed are, in order, the declared steps with the
\* disabled ones removed: at any time a prefix of that list, and the whole
\* list once the pipeline has run to its end.
C3_DeclaredOrderSkippingDisabled ==
    /\ Len(ran) <= Len(EnabledSteps)
    /\ RanSteps = SubSeq(EnabledSteps, 1, Len(ran))
    /\ LoopCompleted => RanSteps = EnabledSteps

C3_Witness ==
    /\ LoopCompleted
    /\ Len(cfg.Commands) = 3
    /\ ~cfg.Commands[1].Disabled /\ cfg.Commands[2].Disabled /\ ~cfg.Commands[3].Disabled
    /\ RanSteps = << 1, 3 >>

\* refreshState succeeded and the role switch has been passed
PastRoleGate == pc \notin {"start", "refreshed"} /\ err # "RefreshFailed"

\* C4: an active validator with sync.enabled_when_active off ends the
\* attempt at the role switch, with no error and no step executed.
C4_ActiveSkipsWithoutError ==
    (/\ PastRoleGate
     /\ State.IdentityPublicKey = cfg.ActiveIdentityPublicKey
     /\ ~cfg.EnabledWhenActive)
    => (pc = "done" /\ err = "nil" /\ ran = << >>)

C4_Witness ==
    /\ PastRoleGate
    /\ State.IdentityPublicKey = cfg.ActiveIdentityPublicKey
    /\ ~cfg.EnabledWhenActive
    /\ Len(cfg.Commands) > 0 /\ \E i \in 1..Len(cfg.Commands) : ~cfg.Commands[i].Disabled
    /\ pc = "done" /\ err = "nil"

\* C5: a passive validator that finds no node with the active identity in
\* gossip, with sync.enabled_when_no_active_leader_in_gossip off, ends the
\* attempt with NoActiveLeader and no step executed.
C5_NoActiveLeaderAborts ==
    (/\ PastRoleGate
     /\ State.IdentityPublicKey = cfg.PassiveIdentityPublicKey
     /\ State.IdentityPublicKey # cfg.ActiveIdentityPublicKey
     /\ hasActiveLeaderInGossip = "absent"
     /\ ~cfg.EnabledWhenNoActiveLeaderInGossip)
    => (pc = "done" /\ err = "NoActiveLeader" /\ ran = << >>)

C5_Witness ==
    /\ pc = "done" /\ err = "NoActiveLeader"
    /\ State.IdentityPublicKey = cfg.PassiveIdentityPublicKey
    /\ hasActiveLeaderInGossip = "absent"
    /\ ~cfg.EnabledWhenNoActiveLeaderInGossip
    /\ \E i \in 1..Len(cfg.Commands) : ~cfg.Commands[i].Disabled

Called(name) == \E i \in 1..Len(calls) : calls[i] = name

\* C6: an identity that is neither configured key ends the attempt with
\* UnrecognizedIdentity; the release catalog and the compliance source have
\* not been queried and no step is executed.
C6_UnknownIdentityFailsBeforeDiscovery ==
    (/\ PastRoleGate
     /\ State.IdentityPublicKey \notin
            {cfg.ActiveIdentityPublicKey, cfg.PassiveIdentityPublicKey})
    => (/\ pc = "done" /\ err = "UnrecognizedIdentity"
        /\ ~Called("github") /\ ~Called("sfdp") /\ ~Called("hasTaggedVersion")
        /\ ran = << >>)

C6_Witness ==
    /\ pc = "done" /\ err = "UnrecognizedIdentity"
    /\ State.IdentityPublicKey = OtherKey
    /\ Called("getHealth")
    /\ \E i \in 1..Len(cfg.Commands) : ~cfg.Commands[i].Disabled

\* the attempt has a final target and has gone through the no-op and
\* bounds checks
PastDecision ==
    /\ pc \in {"exec", "done"}
    /\ versionDiff.To # NilVersion
    /\ err \in {"none", "nil", "TargetOutOfConstraint", "StepFailed"}

SameSegments(a, b) ==
    a.major = b.major /\ a.minor = b.minor /\ a.patch = b.patch

C8_SameVersionIsNoOp ==
    (PastDecision /\ SameSegments(versionDiff.From, versionDiff.To))
    => (pc = "done" /\ err = "nil" /\ ran = << >>)

C8_Witness ==
    /\ PastDecision
    /\ SameSegments(versionDiff.From, versionDiff.To)
    /\ versionDiff.From # versionDiff.To
    /\ pc = "done" /\ err = "nil"
    /\ \E i \in 1..Len(cfg.Commands) : ~cfg.Commands[i].Disabled

\* segment order, pre-release tags ignored
SegmentsLess(a, b) ==
    \/ a.major < b.major
    \/ a.major = b.major /\ a.minor < b.minor
    \/ a.major = b.major /\ a.minor = b.minor /\ a.patch < b.patch

ClampedReq == sfdpOut.req
ClampedTarget == sfdpIn.targetVersion

ExceedsMax ==
    ClampedReq.HasMaxVersion /\ SegmentsLess(ClampedReq.MaxVersion, ClampedTarget)

UnderMin ==
    ClampedReq.HasMinVersion /\ SegmentsLess(ClampedTarget, ClampedReq.MinVersion)

Satisfies == ConstraintCheck(ClampedReq.Constraints, Core(ClampedTarget))

\* C9 as stated: the latest release if it satisfies the compliance
\* constraint; else the max bound if there is one and the latest exceeds it;
\* else the min bound if there is one and the latest is below it.
C9_ClampMaxBeforeMin ==
    pc = "sfdp-clamped" =>
        /\ Satisfies => sfdpOut.result = ClampedTarget
        /\ (~Satisfies /\ ExceedsMax) => sfdpOut.result = ClampedReq.MaxVersion
        /\ (~Satisfies /\ ~ExceedsMax /\ UnderMin) => sfdpOut.result = ClampedReq.MinVersion

\* C9 amended: the latest release if it satisfies the compliance constraint;
\* else the min bound if there is one and the latest is below it; else the
\* max bound if there is one and the latest exceeds it.
C9_ClampMinBeforeMax ==
    pc = "sfdp-clamped" =>
        /\ Satisfies => sfdpOut.result = ClampedTarget
        /\ (~Satisfies /\ UnderMin) => sfdpOut.result = ClampedReq.MinVersion
        /\ (~Satisfies /\ ~UnderMin /\ ExceedsMax) => sfdpOut.result = ClampedReq.MaxVersion

C9_Witness ==
    /\ pc = "sfdp-clamped"
    /\ ~Satisfies /\ ExceedsMax /\ UnderMin
    /\ sfdpOut.result = ClampedReq.MinVersion
    /\ sfdpOut.result # ClampedReq.MaxVersion

\* SetClient has accepted the record
Accepted == pc \in {"sfdp-set", "sfdp-clamped"}

\* C10 as stated: for a record SetClient accepts, no target is both above
\* the max bound and below the min bound.
C10_OneClampDirection ==
    Accepted => ~(AboveMax(ClampedReq, ClampedTarget) /\ BelowMin(ClampedReq, ClampedTarget))

BoundsOrdered ==
    (ClampedReq.HasMinVersion /\ ClampedReq.HasMaxVersion)
        => ~SegmentsLess(ClampedReq.MaxVersion, ClampedReq.MinVersion)

\* C10 amended: for a record SetClient accepts whose min bound is not above
\* its max bound, no target is both above the max bound and below the min
\* bound.
C10_OneClampDirectionWhenOrdered ==
    (Accepted /\ BoundsOrdered)
        => ~(AboveMax(ClampedReq, ClampedTarget) /\ BelowMin(ClampedReq, ClampedTarget))

C10_Witness ==
    /\ pc = "sfdp-clamped"
    /\ ClampedReq.HasMinVersion /\ ClampedReq.HasMaxVersion
    /\ SegmentsLess(ClampedReq.MinVersion, ClampedReq.MaxVersion)
    /\ AboveMax(ClampedReq, ClampedTarget)
    /\ sfdpOut.result = ClampedReq.MaxVersion

\* the attempt has a target and is past target resolution
TargetResolved == pc \in {"resolved", "exec"} \/ (pc = "done" /\ PastDecision)

\* C11: with compliance enabled, a target the attempt goes on with has been
\* looked up in the client repository and is one of its tags; when the
\* compliant version is no tag, or the lookup fails, the attempt ends with
\* that error and no step is executed.
C11_CompliantTargetIsTagged ==
    /\ (cfg.EnableSFDPCompliance /\ TargetResolved) =>
           (/\ Called("hasTaggedVersion")
            /\ repoTags.asked /\ ~repoTags.err
            /\ Core(versionDiff.To) \in repoTags.tags)
    /\ (cfg.EnableSFDPCompliance /\ ran # << >>) =>
           (repoTags.asked /\ Core(versionDiff.To) \in repoTags.tags)
    /\ err \in {"TagMissing", "TagCheckError"} => (pc = "done" /\ ran = << >>)

C11_Witness ==
    /\ pc = "done" /\ err = "TagMissing"
    /\ repoTags.asked /\ ~repoTags.err
    /\ repoTags.tags # Releases
    /\ State.Version \in repoTags.tags
    /\ \E i \in 1..Len(cfg.Commands) : ~cfg.Commands[i].Disabled
    /\ ran = << >>

\* C12: a reader goroutine runs only while its own step is awaiting its
\* process: none is left once the step has returned, the next step has
\* started or the attempt has ended.
C12_ReadersJoinedBeforeStepReturns ==
    \A r \in readers : pc = "stream-wait" /\ r.step = cmdIndex

UnrecoverableFailure ==
    \E k \in 1..Len(ran) : ~StepOf(k).AllowFailure /\ Failed(k)

\* C14: once a step that is not allowed to fail has failed, the attempt does
\* not report success: SyncVersion, and RunOnce which returns its result,
\* return the step's error.
C14_StepFailureIsAttemptFailure ==
    (pc = "done" /\ UnrecoverableFailure) => err = "StepFailed"

\* C15: RunOnInterval goes on for ever: after every attempt, whatever its
\* end, a further attempt is eventually started.
C15_AnotherAttemptFollows ==
    (mgr = "calling" /\ pc = "done") ~> (pc = "start")

\* C16: at no time are two calls of SyncVersion in progress.
C16_OneAttemptAtATime == inProgress <= 1

C16_Witness ==
    /\ mgr = "calling" /\ inProgress = 1
    /\ pc = "exec"
    /\ State # EmptyState /\ staleFields = {}

\* C17: refreshState replaces all fields of State or none: at no time has
\* the current attempt written some of the fields and not the others.
C17_RefreshIsAtomic == staleFields \in {{}, StateFields}

ReadsState == pc \in {"refreshed", "gated", "resolved", "exec"}

C19_RoleIsTotal ==
    LET id == State.IdentityPublicKey
        a == cfg.ActiveIdentityPublicKey
        b == cfg.PassiveIdentityPublicKey
        r == Role(id, a, b)
    IN  /\ r \in {RoleActive, RolePassive, RoleUnknown}
        /\ Cardinality({x \in {"a", "p", "u"} :
                          \/ x = "a" /\ IsActive(id, a)
                          \/ x = "p" /\ IsPassive(id, a, b)
                          \/ x = "u" /\ IsRoleUnknown(id, a, b)}) = 1
        /\ (r = RoleActive) <=> IsActive(id, a)
        /\ (r = RolePassive) <=> IsPassive(id, a, b)
        /\ id = a => r = RoleActive
        /\ (id = a /\ PastRoleGate) => ~Called("getClusterNodes")

C19_Witness ==
    /\ pc = "gated"
    /\ State.IdentityPublicKey = cfg.ActiveIdentityPublicKey
    /\ cfg.ActiveIdentityPublicKey = cfg.PassiveIdentityPublicKey
    /\ MyRole = RoleActive
    /\ ~Called("getClusterNodes")

Release(minor) == [major |-> 1, minor |-> minor, patch |-> 0, pre |-> 0]

\* the scenario: running 1.20.0, latest release 1.21.0, compliance max 1.19.0
DowngradeScenario ==
    /\ versionDiff.From = Release(20)
    /\ sfdpIn.targetVersion = Release(21)
    /\ sfdpOut.req.HasMaxVersion /\ sfdpOut.req.MaxVersion = Release(19)

\* C20: running 1.20.0 with latest release 1.21.0 and a compliance max of
\* 1.19.0, the target is 1.19.0 and the direction is downgrade.
C20_ClampToMaxIsDowngrade ==
    (pc = "resolved" /\ DowngradeScenario)
    => (versionDiff.To = Release(19) /\ Direction(versionDiff) = DirectionDowngrade)

C20_Witness ==
    /\ pc = "resolved" /\ DowngradeScenario
    /\ ~sfdpOut.req.HasMinVersion
    /\ sfdpOut.result = Release(19)
    /\ versionDiff.To = Release(19)
    /\ Direction(versionDiff) = DirectionDowngrade

\* the scenario: running 1.17.0, latest release 1.18.0, compliance min
\* 1.18.0 and max 1.19.0
UpgradeScenario ==
    /\ versionDiff.From = Release(17)
    /\ sfdpIn.targetVersion = Release(18)
    /\ sfdpOut.req.HasMinVersion /\ sfdpOut.req.MinVersion = Release(18)
    /\ sfdpOut.req.HasMaxVersion /\ sfdpOut.req.MaxVersion = Release(19)

\* C21: running 1.17.0 with latest release 1.18.0 and compliance bounds
\* 1.18.0 to 1.19.0, the target is 1.18.0 and the direction is upgrade.
C21_WithinBoundsIsUpgrade ==
    (pc = "resolved" /\ UpgradeScenario)
    => (versionDiff.To = Release(18) /\ Direction(versionDiff) = DirectionUpgrade)

C21_Witness ==
    /\ pc = "resolved" /\ UpgradeScenario
    /\ sfdpOut.result = sfdpIn.targetVersion
    /\ versionDiff.To = Release(18)
    /\ Direction(versionDiff) = DirectionUpgrade

\* C22: for all versions a < b, Direction(a, b) is upgrade, Direction(b, a)
\* is downgrade and Direction(a, a) is same; every ordered pair of versions
\* is asked, so (a, b), (b, a) and (a, a) are each some diff's From and To
C22_DirectionFollowsOrder ==
    diffOut.used =>
        /\ SegmentsLess(versionDiff.From, versionDiff.To)
              => diffOut.Direction = DirectionUpgrade
        /\ SegmentsLess(versionDiff.To, versionDiff.From)
              => diffOut.Direction = DirectionDowngrade
        /\ versionDiff.From = versionDiff.To
              => diffOut.Direction = DirectionSame

C22_Witness ==
    /\ diffOut.used
    /\ SegmentsLess(versionDiff.To, versionDiff.From)
    /\ versionDiff.To.minor > versionDiff.From.minor
    /\ diffOut.Direction = DirectionDowngrade

\* C23: a diff whose major segments differ is an upgrade or a downgrade,
\* never the same version
C23_MajorChangeIsNeverSame ==
    (diffOut.used /\ diffOut.HasMajorChange)
        => diffOut.Direction \in {DirectionUpgrade, DirectionDowngrade}

C23_Witness ==
    /\ diffOut.used /\ diffOut.HasMajorChange
    /\ versionDiff.From.major > versionDiff.To.major
    /\ versionDiff.From.minor < versionDiff.To.minor
    /\ diffOut.Direction = DirectionDowngrade

\* C24: equality and ordering look at major, minor and patch only: two
\* versions with the same three segments are the same version whatever
\* their pre-release tag and build metadata, and exactly one of
\* IsSameVersion, IsUpgrade and IsDowngrade holds for any pair
C24_ThreeSegmentsOnly ==
    diffOut.used =>
        /\ diffOut.IsSameVersion <=> SameSegments(versionDiff.From, versionDiff.To)
        /\ diffOut.IsUpgrade <=> SegmentsLess(versionDiff.From, versionDiff.To)
        /\ diffOut.IsDowngrade <=> SegmentsLess(versionDiff.To, versionDiff.From)
        /\ Cardinality({m \in {"IsSameVersion", "IsUpgrade", "IsDowngrade"} :
                           diffOut[m]}) = 1

C24_Witness ==
    /\ diffOut.used
    /\ SameSegments(versionDiff.From, versionDiff.To)
    /\ versionDiff.From.pre # versionDiff.To.pre
    /\ versionDiff.From.meta # versionDiff.To.meta
    /\ diffOut.IsSameVersion /\ ~diffOut.IsUpgrade /\ ~diffOut.IsDowngrade

\* a version lies in the closed interval of the bounds the record has
InClosedInterval(req, v) ==
    /\ req.HasMinVersion => ~SegmentsLess(v, req.MinVersion)
    /\ req.HasMaxVersion => ~SegmentsLess(req.MaxVersion, v)

\* C25: the constraint SetClient builds from a min bound alone accepts every
\* version at or above the min and rejects every version below it; built
\* from both bounds it accepts exactly the versions of the closed interval
\* from min to max
C25_ConstraintIsClosedInterval ==
    (sfdpOut.used /\ sfdpOut.req.err = "nil" /\ sfdpOut.req.HasMinVersion)
        => \A v \in KnownVersions :
              WithinSFDP(sfdpOut.req, v) <=> InClosedInterval(sfdpOut.req, v)

\* C26: SetClient resolves every client name the configuration admits
\* (agave, bam-client, jito-solana, firedancer) to bound fields, the
\* variants of agave to the agave fields; it reports an unknown client
\* only for a name outside that set
C26_EveryClientIsMapped ==
    (sfdpOut.used /\ cfg.Client \in Clients)
        => /\ sfdpOut.req.err # "InvalidClient"
           /\ sfdpOut.req.err = "nil" =>
                 LET raw == sfdpIn.raw
                     mn == IF cfg.Client = ClientNameFiredancer
                           THEN raw.FiredancerMinVersion ELSE raw.AgaveMinVersion
                     mx == IF cfg.Client = ClientNameFiredancer
                           THEN raw.FiredancerMaxVersion ELSE raw.AgaveMaxVersion
                 IN  /\ sfdpOut.req.HasMinVersion <=> mn # EmptyString
                     /\ sfdpOut.req.HasMaxVersion <=> mx # EmptyString
                     /\ sfdpOut.req.HasMinVersion => sfdpOut.req.MinVersion = mn
                     /\ sfdpOut.req.HasMaxVersion => sfdpOut.req.MaxVersion = mx

\* the positions of the records with the highest epoch of the response
HighestEpochAt(data) ==
    {i \in 1..Len(data) : \A j \in 1..Len(data) : data[j].Epoch <= data[i].Epoch}

\* C27: when the compliance source answers with several epoch records, the
\* bounds are derived from the record with the highest epoch, wherever it
\* stands in the response
C27_HighestEpochIsUsed ==
    (sfdpOut.used /\ "response" \in DOMAIN sfdpIn)
        => LET data == sfdpIn.response.Data
           IN  \E i \in HighestEpochAt(data) :
                  /\ sfdpIn.raw = data[i]
                  /\ sfdpOut.req = SetClient(data[i], cfg.Client)

C27_Witness ==
    /\ sfdpOut.used /\ "response" \in DOMAIN sfdpIn
    /\ pc = "sfdp-clamped"
    /\ cfg.Client = ClientNameJitoSolana
    /\ LET data == sfdpIn.response.Data
       IN  /\ Len(data) = 3
           /\ HighestEpochAt(data) = {2}
           /\ data[2].AgaveMinVersion # data[1].AgaveMinVersion
           /\ data[2].AgaveMinVersion # data[3].AgaveMinVersion
           /\ sfdpOut.req.MinVersion = data[2].AgaveMinVersion

\* C28: the release discoverer fails with NoMatchingReleases when no
\* release matched for the configured cluster
C28_EmptyClusterSetFails ==
    (githubClient.used /\ pc = "done" /\ githubClient.listed
       /\ githubClient.versionStrings[githubClient.cluster] = {})
        => err = "NoMatchingReleases"

C28_Witness ==
    /\ githubClient.used /\ pc = "done" /\ githubClient.listed
    /\ githubClient.cluster = ClusterNameMainnetBeta
    /\ githubClient.versionStrings[ClusterNameMainnetBeta] = {}
    /\ githubClient.versionStrings[ClusterNameTestnet] # {}
    /\ err = "NoMatchingReleases"

\* v is the greatest of the tags
IsMaximumOf(v, tags) == v \in tags /\ \A w \in tags : Compare(w, v) <= 0

\* C29: the mainnet maximum replaces the cluster's own maximum exactly when
\* the configured cluster is testnet and the mainnet maximum is strictly
\* greater than testnet's; on mainnet nothing is replaced; the version
\* returned for testnet is never behind mainnet's
C29_CrossNetworkRule ==
    (githubClient.used /\ pc = "done" /\ err = "nil")
        => LET vs == githubClient.versionStrings
               got == githubClient.latestVersion
               mainnetIsAhead ==
                   \E m \in vs[ClusterNameMainnetBeta], t \in vs[ClusterNameTestnet] :
                       /\ IsMaximumOf(m, vs[ClusterNameMainnetBeta])
                       /\ IsMaximumOf(t, vs[ClusterNameTestnet])
                       /\ Compare(m, t) > 0
           IN  /\ githubClient.warned
                     <=> (githubClient.cluster = ClusterNameTestnet /\ mainnetIsAhead)
               /\ githubClient.warned => IsMaximumOf(got, vs[ClusterNameMainnetBeta])
               /\ ~githubClient.warned => IsMaximumOf(got, vs[githubClient.cluster])
               /\ githubClient.cluster = ClusterNameTestnet
                     => \A m \in vs[ClusterNameMainnetBeta] : Compare(got, m) >= 0

C29_Witness ==
    /\ githubClient.used /\ pc = "done" /\ err = "nil"
    /\ githubClient.cluster = ClusterNameTestnet
    /\ githubClient.warned
    /\ Cardinality(githubClient.versionStrings[ClusterNameTestnet]) > 1
    /\ githubClient.latestVersion \notin githubClient.versionStrings[ClusterNameTestnet]
    /\ IsMaximumOf(githubClient.latestVersion,
                   githubClient.versionStrings[ClusterNameMainnetBeta])

\* the identity asked for is among the nodes of the answer
InPeerDirectory ==
    \E i \in 1..Len(rpcClient.answer.nodes) :
        rpcClient.answer.nodes[i] = rpcClient.identityPublicKey

\* C30: the lookup returns found = false and no error when the peer
\* directory was fetched and does not hold the identity; it returns an
\* error only when the fetch failed in transport or in decoding
C30_AbsentIsNotAnError ==
    (rpcClient.used /\ pc = "done")
        => /\ (rpcClient.answer.status = "ok" /\ ~InPeerDirectory)
                 => (~rpcClient.found /\ rpcClient.err = "nil")
           /\ rpcClient.err # "nil" <=> rpcClient.answer.status # "ok"
           /\ rpcClient.found <=> (rpcClient.answer.status = "ok" /\ InPeerDirectory)

C30_Witness ==
    /\ rpcClient.used /\ pc = "done"
    /\ rpcClient.answer.status = "ok"
    /\ Len(rpcClient.answer.nodes) = MaxGossipNodes
    /\ ~InPeerDirectory
    /\ ~rpcClient.found /\ rpcClient.err = "nil"

\* C35: with compliance enabled, an attempt that gets past target
\* resolution has a target, and the target satisfies the constraint of the
\* compliance record; target resolution never ends without a version
C35_ResolvedTargetIsCompliant ==
    cfg.EnableSFDPCompliance =>
        /\ err # "panic"
        /\ pc = "resolved" =>
              /\ versionDiff.To # NilVersion
              /\ WithinSFDP(sfdpOut.req, versionDiff.To)

\* C39: the clamp makes the max check first and the min check second, each
\* on its own; a target above the max bound becomes the max bound, a target
\* below the min bound becomes the min bound, and when both hold the min
\* bound, applied last, is the result
C39_MaxCheckThenMinCheck ==
    pc = "sfdp-clamped" =>
        /\ (ExceedsMax /\ UnderMin) => sfdpOut.result = ClampedReq.MinVersion
        /\ (ExceedsMax /\ ~UnderMin) => sfdpOut.result = ClampedReq.MaxVersion
        /\ (UnderMin /\ ~ExceedsMax) => sfdpOut.result = ClampedReq.MinVersion

C39_Witness ==
    /\ pc = "sfdp-clamped"
    /\ ClampedReq.HasMinVersion /\ ClampedReq.HasMaxVersion
    /\ ExceedsMax /\ UnderMin
    /\ ClampedReq.MinVersion.pre = 0 /\ ClampedReq.MaxVersion.pre = 0
    /\ sfdpOut.result = ClampedReq.MinVersion

\* C36: release discovery succeeds for the configured cluster whenever that
\* cluster has a matching release, whatever the other cluster has
C36_OtherClusterDoesNotMatter ==
    (/\ githubClient.used /\ pc = "done" /\ githubClient.listed
     /\ githubClient.versionStrings[githubClient.cluster] # {}
     /\ \A c \in ValidClusterNames : Garbage \notin githubClient.versionStrings[c])
        => (err = "nil" /\ githubClient.latestVersion # NilVersion)

\* C40: the release discoverer does not tell versions apart by pre-release
\* tag: the mainnet maximum is substituted for testnet's only when its
\* (major, minor, patch) is greater, never when the two differ only by
\* pre-release tag
C40_PreReleaseNeverSubstitutes ==
    (githubClient.used /\ pc = "done" /\ err = "nil" /\ githubClient.warned)
        => \A t \in githubClient.versionStrings[ClusterNameTestnet] :
              IsMaximumOf(t, githubClient.versionStrings[ClusterNameTestnet])
                  => SegmentsLess(t, githubClient.latestVersion)

\* the configuration file has one of the errors: unknown client, unknown
\* cluster, malformed version constraint, malformed template
ConfigurationError ==
    \/ cfg.Client = InvalidClient
    \/ cfg.Cluster = InvalidCluster
    \/ cfg.VersionConstraint = NilConstraint
    \/ \E i \in 1..Len(cfg.Commands) : cfg.Commands[i].Templates = "malformed"

\* C31: a configuration with an unknown client or cluster, a malformed
\* template or a malformed version constraint makes construction fail: the
\* engine is never built from it and no attempt starts
C31_ConfigurationErrorsFailConstruction ==
    ConfigurationError =>
        /\ pc \notin {"constructed", "start"}
        /\ inProgress = 0
        /\ pc = "done" => err \in {"ConfigurationError", "ConstructionError"}

C31_Witness ==
    /\ pc = "done" /\ err = "ConstructionError" /\ inProgress = 0
    /\ cfg.Client \in Clients /\ cfg.Cluster \in ValidClusterNames
    /\ cfg.VersionConstraint # NilConstraint
    /\ Len(cfg.Commands) = 2
    /\ cfg.Commands[1].Templates = "parse"
    /\ cfg.Commands[2].Templates = "malformed"

\* the step executed k-th as it would be configured without stream_output
Unstreamed(k) == [StepOf(k) EXCEPT !.StreamOutput = FALSE]

\* C34: whether a step aborts the pipeline does not depend on stream_output:
\* for a launch result and exit status that both modes can see, a streamed
\* step ends the pipeline with its error exactly when the same step with the
\* same flags and the same outcome would do so without stream_output.
C34_StreamOutputDoesNotChangeOutcome ==
    \A k \in 1..Len(ran) :
        (StepOf(k).StreamOutput /\ ran[k].outcome \in Outcomes(Unstreamed(k))) =>
            (AbortedAt(k) <=> exec(Unstreamed(k), ran[k].outcome).err)

\* C37: a step whose command, argument or environment template failed to
\* render is not launched, and the failure is returned as the step's error.
C37_RenderFailureIsNotLaunched ==
    \A k \in 1..Len(compiled) :
        (compiled[k].renderFailed /\ ~cfg.Commands[compiled[k].data.CommandIndex + 1].Disabled) =>
            (~compiled[k].launched /\ compiled[k].err)

\* the values of one call of ExecuteWithData that exec is given
Rendered(k) ==
    << compiled[k].compiledCmd, compiled[k].compiledArgs, compiled[k].compiledEnvironment >>

\* two calls of ExecuteWithData on the same step with the same data
SameStepSameData(j, k) == j # k /\ compiled[j].data = compiled[k].data

\* a call of ExecuteWithData that only rendered: the step is disabled
RenderedOnly ==
    /\ pc = "exec" /\ cfg.Commands[cmdIndex].Disabled
    /\ Len(compiled') = Len(compiled) + 1

IsBoundaryOfDay(t, now, intervalDuration) ==
    LET startOfDay == (now \div DayLength) * DayLength
    IN  t >= startOfDay /\ (t - startOfDay) % intervalDuration = 0

\* C33: calculateNextBoundary returns the earliest instant strictly after now
\* that lies a whole number of intervals after midnight of now's day; for a
\* now that is itself such an instant, that is now plus one interval.
C33_NextBoundaryIsEarliestAfterNow ==
    loop.used =>
        LET now == loop.now
            d == loop.intervalDuration
            next == loop.nextBoundary
        IN  /\ next > now
            /\ IsBoundaryOfDay(next, now, d)
            /\ \A t \in (now + 1)..(next - 1) : ~IsBoundaryOfDay(t, now, d)
            /\ IsBoundaryOfDay(now, now, d) => next = now + d

\* asked on a boundary that is not midnight, with an interval that does not
\* divide the day: the following boundary lies in the next day
C33_Witness ==
    /\ loop.used
    /\ IsBoundaryOfDay(loop.now, loop.now, loop.intervalDuration)
    /\ loop.now % DayLength # 0
    /\ DayLength % loop.intervalDuration # 0
    /\ loop.nextBoundary \div DayLength > loop.now \div DayLength

\* the size of the interval
Step(intervalDuration) == IF intervalDuration < 0 THEN 0 - intervalDuration ELSE intervalDuration

\* instant t is an interval boundary: a whole number of intervals after the
\* midnight of its day
IsBoundary(t) == (t % DayLength) % Step(loop.intervalDuration) = 0

\* the last boundary at or before t, and the first one after t
BoundaryAtOrBefore(t) ==
    CHOOSE b \in 0..t : IsBoundary(b) /\ \A c \in (b + 1)..t : ~IsBoundary(c)

BoundaryAfter(t) ==
    CHOOSE b \in (t + 1)..(t + DayLength) :
        IsBoundary(b) /\ \A c \in (t + 1)..(b - 1) : ~IsBoundary(c)

\* no attempt starts before the first boundary after start-up; two attempts
\* never start on the same boundary; and an attempt starts no earlier than
\* the first boundary after the attempt before it returned
BoundariesKept ==
    /\ \A k \in 1..Len(loop.attempts) :
          loop.attempts[k].entered >= BoundaryAfter(loop.startedAt)
    /\ \A j, k \in 1..Len(loop.attempts) :
          j < k => BoundaryAtOrBefore(loop.attempts[j].entered)
                      < BoundaryAtOrBefore(loop.attempts[k].entered)
    /\ \A k \in 2..Len(loop.attempts) :
          loop.attempts[k].entered >= BoundaryAfter(loop.attempts[k - 1].returned)

\* C38: in interval mode no attempt starts before the first interval boundary
\* after start-up, at most one attempt starts per boundary, and an attempt
\* that ran past boundaries is followed by a wait for the next boundary, not
\* by another attempt at once.
C38_AttemptsKeepToBoundaries == loop.used => BoundariesKept

\* the same for the intervals that are positive
PositiveIntervalKeepsBoundaries ==
    (loop.used /\ loop.intervalDuration > 0) => BoundariesKept

\* an attempt ran past a boundary and the one after it waited for the next
PositiveIntervalSkipsBoundaries ==
    /\ loop.intervalDuration > 0
    /\ \E k \in 2..Len(loop.attempts) :
          /\ BoundaryAfter(loop.attempts[k - 1].entered) < loop.attempts[k - 1].returned
          /\ loop.attempts[k].entered = BoundaryAfter(loop.attempts[k - 1].returned)

====
